---- MODULE Spec2Model ----
(***************************************************************************)
(* Model of server/main.ts: the Router (route table, handle, handlePost),  *)
(* the four registered handlers and the parsing helpers of the mirror      *)
(* endpoint POST /post.                                                    *)
(*                                                                         *)
(* Strings are sequences of one-character strings, so that URL splitting,  *)
(* substring tests and the query/form/JSON parsers are computed character  *)
(* by character.  Body chunks are sequences of bytes: an ASCII byte is     *)
(* written as its character, "C3" and "A9" are the two bytes of the UTF-8  *)
(* encoding of e-acute.                                                    *)
(***************************************************************************)
EXTENDS Integers, Sequences, FiniteSets, TLC

VARIABLES routes, reqs, nRegs, nodeEnv, portEnv, listening,
          page, stepEnv, lastStep

\* the state of the browser-driving steps (specs/steps/form.ts)
stepVars == <<page, stepEnv, lastStep>>

vars == <<routes, reqs, nRegs, nodeEnv, portEnv, listening, page, stepEnv, lastStep>>

(***************************************************************************)
(* Bounds                                                                  *)
(***************************************************************************)
MaxReqs == 1
MaxRegs == 1
MaxChunks == 2
MaxPairs == 2

(***************************************************************************)
(* String constants                                                        *)
(***************************************************************************)
PathRoot == <<"/">>
PathPost == <<"/","p","o","s","t">>
PathHealth == <<"/","h","e","a","l","t","h">>
PathForms == <<"/","f","o","r","m","s","/","p","o","s","t">>
PathTest == <<"/","t","e","s","t">>
PathNonexistent == <<"/","n","o","n","e","x","i","s","t","e","n","t">>

NotFound == <<"N","o","t"," ","F","o","u","n","d">>
FileNotFound == <<"F","i","l","e"," ","n","o","t"," ","f","o","u","n","d">>
HelloWorld == <<"H","e","l","l","o"," ","W","o","r","l","d","!">>
Unknown == <<"u","n","k","n","o","w","n">>
Healthy == <<"h","e","a","l","t","h","y">>
Development == <<"d","e","v","e","l","o","p","m","e","n","t">>
FormHtml == <<"<","f","o","r","m",">">>

TextPlain == <<"t","e","x","t","/","p","l","a","i","n">>
TextHtml == <<"t","e","x","t","/","h","t","m","l">>
AppJson == <<"a","p","p","l","i","c","a","t","i","o","n","/","j","s","o","n">>
AppForm == <<"a","p","p","l","i","c","a","t","i","o","n","/","x","-","w","w","w","-",
             "f","o","r","m","-","u","r","l","e","n","c","o","d","e","d">>
Charset == <<";"," ","c","h","a","r","s","e","t","=","u","t","f","-","8">>

ContentTypeName == <<"c","o","n","t","e","n","t","-","t","y","p","e">>
HostName == <<"h","o","s","t">>
LocalHost == <<"l","o","c","a","l","h","o","s","t",":","3","0","0","0">>
HttpScheme == <<"h","t","t","p",":","/","/">>
LoopbackAddr == <<"1","2","7",".","0",".","0",".","1">>
Proto == <<"_","_","p","r","o","t","o","_","_">>

(***************************************************************************)
(* String helpers (String.prototype.indexOf / includes / slice)            *)
(***************************************************************************)
IndexOfAny(s, cs) ==
  IF \E i \in 1..Len(s) : s[i] \in cs
  THEN CHOOSE i \in 1..Len(s) : s[i] \in cs /\ \A j \in 1..(i-1) : s[j] \notin cs
  ELSE 0

\* variant: the whole string must be the media type
IncludesExact(s, sub) == s = sub

Includes(s, sub) ==
  \E i \in 0..(Len(s) - Len(sub)) : SubSeq(s, i+1, i+Len(sub)) = sub

Slice(s, from) == SubSeq(s, from, Len(s))

(***************************************************************************)
(* chunk.toString(): UTF-8 decoding of one Buffer.  A complete two-byte    *)
(* sequence C3 A9 decodes to one character; a lead byte without its        *)
(* continuation, or a continuation byte on its own, decodes to U+FFFD.     *)
(***************************************************************************)
EAcute == "e'"
Replacement == "FFFD"

RECURSIVE chunkToString(_)
chunkToString(chunk) ==
  IF chunk = <<>> THEN <<>>
  ELSE IF Head(chunk) = "C3" /\ Len(chunk) >= 2 /\ chunk[2] = "A9"
       THEN <<EAcute>> \o chunkToString(Slice(chunk, 3))
  ELSE IF Head(chunk) \in {"C3", "A9"}
       THEN <<Replacement>> \o chunkToString(Tail(chunk))
  ELSE <<Head(chunk)>> \o chunkToString(Tail(chunk))

(***************************************************************************)
(* Plain JavaScript objects as ordered lists of own properties [k, v].     *)
(***************************************************************************)
ObjHas(obj, k) == \E i \in 1..Len(obj) : obj[i].k = k

ObjIndex(obj, k) == CHOOSE i \in 1..Len(obj) : obj[i].k = k

ObjGet(obj, k) == obj[ObjIndex(obj, k)].v

ObjKeys(obj) == {obj[i].k : i \in 1..Len(obj)}

Digits == <<"0","1","2","3","4","5","6","7","8","9">>

DigitValue(c) == (CHOOSE n \in 1..10 : Digits[n] = c) - 1

\* a property key that is an array index: a canonical decimal numeral
IsIndex(k) ==
  /\ k # <<>>
  /\ \A i \in 1..Len(k) : \E n \in 1..10 : Digits[n] = k[i]
  /\ Len(k) = 1 \/ k[1] # "0"

\* numeric order of two array indices
RECURSIVE NumeralLess(_, _)
NumeralLess(a, b) ==
  IF a = <<>> THEN FALSE
  ELSE IF Head(a) # Head(b) THEN DigitValue(Head(a)) < DigitValue(Head(b))
  ELSE NumeralLess(Tail(a), Tail(b))

IndexLess(a, b) == Len(a) < Len(b) \/ (Len(a) = Len(b) /\ NumeralLess(a, b))

\* CreateDataProperty: defines or overwrites the own property k.  The own
\* properties are enumerated (Object.entries, JSON.stringify) with the array
\* indices first, in ascending order, then the other keys in creation order.
ObjDefine(obj, k, v) ==
  IF ObjHas(obj, k)
  THEN [obj EXCEPT ![ObjIndex(obj, k)] = [k |-> k, v |-> v]]
  ELSE IF IsIndex(k)
       THEN LET p == Cardinality({i \in 1..Len(obj) : IsIndex(obj[i].k) /\ IndexLess(obj[i].k, k)})
            IN SubSeq(obj, 1, p) \o <<[k |-> k, v |-> v]>> \o SubSeq(obj, p + 1, Len(obj))
  ELSE Append(obj, [k |-> k, v |-> v])

\* obj[k] = v on an object created by {}: the key __proto__ reaches the
\* accessor inherited from Object.prototype, which replaces the prototype
\* (v is an array, hence an object) and creates no own property.
ObjAssign(obj, k, v) ==
  IF k = Proto THEN obj ELSE ObjDefine(obj, k, v)

(***************************************************************************)
(* new URL(req.url, "http://" + host).  The request targets of the model   *)
(* are empty or start with "?", "#" or one "/" (not "//", which would      *)
(* start an authority) and hold no character the URL parser would escape.  *)
(* The target is cut at the first "#" and the first "?"; the path is cut   *)
(* into segments at "/" and "\", a "." segment (also written %2e) is       *)
(* dropped, a ".." segment drops the segment before it, and either of them *)
(* in last position leaves an empty last segment.                          *)
(***************************************************************************)
RECURSIVE SplitAny(_, _)
SplitAny(s, seps) ==
  LET i == IndexOfAny(s, seps)
  IN IF i = 0 THEN <<s>> ELSE <<SubSeq(s, 1, i - 1)>> \o SplitAny(Slice(s, i + 1), seps)

\* the segment with every %2e written as "."
RECURSIVE Undot(_)
Undot(seg) ==
  IF seg = <<>> THEN <<>>
  ELSE IF Len(seg) >= 3 /\ seg[1] = "%" /\ seg[2] = "2" /\ seg[3] \in {"e", "E"}
       THEN <<".">> \o Undot(Slice(seg, 4))
  ELSE <<Head(seg)>> \o Undot(Tail(seg))

RECURSIVE PathSegments(_, _)
PathSegments(path, segs) ==
  IF segs = <<>> THEN path
  ELSE LET seg == Head(segs)
           atEnd == IF Len(segs) = 1 THEN <<<<>>>> ELSE <<>>
       IN IF Undot(seg) = <<".", ".">>
          THEN PathSegments((IF path = <<>> THEN path ELSE SubSeq(path, 1, Len(path) - 1))
                            \o atEnd, Tail(segs))
          ELSE IF Undot(seg) = <<".">>
          THEN PathSegments(path \o atEnd, Tail(segs))
          ELSE PathSegments(Append(path, seg), Tail(segs))

RECURSIVE JoinPath(_)
JoinPath(path) ==
  IF path = <<>> THEN <<>> ELSE <<"/">> \o Head(path) \o JoinPath(Tail(path))

\* the pathname of a path that starts with "/"
NormalizePath(rawPath) ==
  JoinPath(PathSegments(<<>>, SplitAny(Tail(rawPath), {"/", "\\"})))

\* variant: the pathname keeps the query string
ParseUrlKeepQuery(url, host) ==
  LET h == IndexOfAny(url, {"#"})
      beforeHash == IF h = 0 THEN url ELSE SubSeq(url, 1, h - 1)
      q == IndexOfAny(beforeHash, {"?"})
  IN [ok |-> TRUE,
      pathname |-> IF beforeHash = <<>> THEN PathRoot ELSE beforeHash,
      query |-> IF q = 0 THEN <<>> ELSE Slice(beforeHash, q + 1),
      href |-> HttpScheme \o host \o url]

\* the target without the slashes and backslashes it starts with
RECURSIVE SkipSlashes(_)
SkipSlashes(url) ==
  IF url # <<>> /\ Head(url) \in {"/", "\\"} THEN SkipSlashes(Tail(url)) ELSE url

\* a target that starts with two or more slashes names a host of its own;
\* the URL parser fails when that host is empty
EmptyAuthority(url) ==
  LET rest == SkipSlashes(url)
  IN /\ Len(url) - Len(rest) >= 2
     /\ (rest = <<>> \/ Head(rest) \in {"?", "#"})

\* new URL(req.url, `http://${req.headers.host}`); ok is FALSE when the
\* constructor throws a TypeError (Invalid URL)
ParseUrl(url, host) ==
  LET h == IndexOfAny(url, {"#"})
      beforeHash == IF h = 0 THEN url ELSE SubSeq(url, 1, h - 1)
      q == IndexOfAny(beforeHash, {"?"})
      rawPath == IF q = 0 THEN beforeHash ELSE SubSeq(beforeHash, 1, q - 1)
      pathname == IF rawPath = <<>> THEN PathRoot ELSE NormalizePath(rawPath)
      query == IF q = 0 THEN <<>> ELSE Slice(beforeHash, q + 1)
  IN [ok |-> host # <<>> /\ ~EmptyAuthority(url),
      pathname |-> pathname,
      query |-> query,
      href |-> HttpScheme \o host \o pathname
               \o (IF q = 0 THEN <<>> ELSE Slice(beforeHash, q))
               \o (IF h = 0 THEN <<>> ELSE Slice(url, h))]

(***************************************************************************)
(* application/x-www-form-urlencoded decoding, shared by URLSearchParams   *)
(* (args) and querystring.parse (form): split on "&", skip empty pieces,   *)
(* split each piece at its first "=", turn "+" into a space and decode     *)
(* percent escapes.                                                        *)
(***************************************************************************)
PctTable ==
  << <<"&", "2", "6">>, <<"=", "3", "D">>, <<"+", "2", "B">>, <<"%", "2", "5">>,
     <<" ", "2", "0">>, <<"#", "2", "3">>, <<"?", "3", "F">> >>

HexUpper(c) == IF c = "d" THEN "D" ELSE IF c = "b" THEN "B" ELSE IF c = "f" THEN "F" ELSE c

IsEscape(a, b) == \E i \in 1..Len(PctTable) : PctTable[i][2] = a /\ PctTable[i][3] = HexUpper(b)

Unescape(a, b) ==
  PctTable[CHOOSE i \in 1..Len(PctTable) : PctTable[i][2] = a /\ PctTable[i][3] = HexUpper(b)][1]

RECURSIVE Decode(_)
Decode(s) ==
  IF s = <<>> THEN <<>>
  ELSE IF Head(s) = "+" THEN <<" ">> \o Decode(Tail(s))
  ELSE IF Head(s) = "%" /\ Len(s) >= 3 /\ IsEscape(s[2], s[3])
       THEN <<Unescape(s[2], s[3])>> \o Decode(Slice(s, 4))
  ELSE <<Head(s)>> \o Decode(Tail(s))

RECURSIVE Split(_, _)
Split(s, sep) ==
  LET i == IndexOfAny(s, {sep})
  IN IF i = 0 THEN <<s>> ELSE <<SubSeq(s, 1, i - 1)>> \o Split(Slice(s, i + 1), sep)

ParsePiece(piece) ==
  LET e == IndexOfAny(piece, {"="})
  IN IF e = 0 THEN [k |-> Decode(piece), v |-> <<>>]
     ELSE [k |-> Decode(SubSeq(piece, 1, e - 1)), v |-> Decode(Slice(piece, e + 1))]

RECURSIVE ParsePieces(_)
ParsePieces(pieces) ==
  IF pieces = <<>> THEN <<>>
  ELSE IF Head(pieces) = <<>> THEN ParsePieces(Tail(pieces))
  ELSE <<ParsePiece(Head(pieces))>> \o ParsePieces(Tail(pieces))

ParsePairs(s) == ParsePieces(Split(s, "&"))

\* parsedUrl.searchParams: the list of decoded pairs of the query
searchParams(query) == ParsePairs(query)

\* Object.fromEntries(pairs): a later pair overwrites an earlier one
RECURSIVE FromEntriesFrom(_, _)
FromEntriesFrom(obj, pairs) ==
  IF pairs = <<>> THEN obj
  ELSE FromEntriesFrom(ObjDefine(obj, Head(pairs).k, Head(pairs).v), Tail(pairs))

\* variant: the first pair of a key is kept
RECURSIVE FromEntriesFirstFrom(_, _)
FromEntriesFirstFrom(obj, pairs) ==
  IF pairs = <<>> THEN obj
  ELSE FromEntriesFirstFrom(IF ObjHas(obj, Head(pairs).k) THEN obj
                            ELSE ObjDefine(obj, Head(pairs).k, Head(pairs).v),
                            Tail(pairs))

fromEntriesFirstWins(pairs) == FromEntriesFirstFrom(<<>>, pairs)

fromEntries(pairs) == FromEntriesFrom(<<>>, pairs)

\* querystring.parse(body): an object without prototype; a first value is
\* stored as a string, a repeated key turns into the array of its values.
\* Each value is [arr |-> is it an array, list |-> its string(s)].
QsAdd(obj, k, v) ==
  IF ObjHas(obj, k)
  THEN ObjDefine(obj, k, [arr |-> TRUE, list |-> Append(ObjGet(obj, k).list, v)])
  ELSE ObjDefine(obj, k, [arr |-> FALSE, list |-> <<v>>])

RECURSIVE QsParseFrom(_, _)
QsParseFrom(obj, pairs) ==
  IF pairs = <<>> THEN obj
  ELSE QsParseFrom(QsAdd(obj, Head(pairs).k, Head(pairs).v), Tail(pairs))

querystring_parse(body) == QsParseFrom(<<>>, ParsePairs(body))

\* Array.isArray(value) ? value : [value]
AsArray(value) == IF value.arr THEN value.list ELSE <<value.list[1]>>

RECURSIVE ParseFormFrom(_, _)
ParseFormFrom(result, entries) ==
  IF entries = <<>> THEN result
  ELSE ParseFormFrom(ObjAssign(result, Head(entries).k, AsArray(Head(entries).v)),
                     Tail(entries))

parseForm(body) == ParseFormFrom(<<>>, querystring_parse(body))

(***************************************************************************)
(* JSON values: [t, s, kids].  t is "null", "bool", "num", "str", "arr" or *)
(* "obj"; s is the text of a boolean, a number or a string; kids is the    *)
(* element list of an array or the property list of an object.  JavaScript *)
(* null is JNull.                                                          *)
(***************************************************************************)
JNull == [t |-> "null", s |-> <<>>, kids |-> <<>>]
JBool(text) == [t |-> "bool", s |-> text, kids |-> <<>>]
JNum(text) == [t |-> "num", s |-> text, kids |-> <<>>]
JStr(text) == [t |-> "str", s |-> text, kids |-> <<>>]
JArr(elems) == [t |-> "arr", s |-> <<>>, kids |-> elems]
JObj(props) == [t |-> "obj", s |-> <<>>, kids |-> props]

LitNull == <<"n","u","l","l">>
LitTrue == <<"t","r","u","e">>
LitFalse == <<"f","a","l","s","e">>
Quote == "\""
Backslash == "\\"
JsonWs == {" ", "\t", "\n", "\r"}
JsonDigits == {"0","1","2","3","4","5","6","7","8","9"}

(***************************************************************************)
(* JSON.parse(text), by recursive descent.  Covered: the three literals,   *)
(* unsigned integers without leading zero, strings with the escapes \" \\  *)
(* and \/, arrays, objects and insignificant whitespace.  A result is      *)
(* [ok, val, next]; ok = FALSE stands for the SyntaxError it throws.       *)
(***************************************************************************)
JsonFail == [ok |-> FALSE, val |-> JNull, next |-> 0]

RECURSIVE SkipWs(_, _)
SkipWs(s, i) == IF i <= Len(s) /\ s[i] \in JsonWs THEN SkipWs(s, i + 1) ELSE i

IsAt(s, i, c) == i <= Len(s) /\ s[i] = c

StartsAt(s, i, lit) == i + Len(lit) - 1 <= Len(s) /\ SubSeq(s, i, i + Len(lit) - 1) = lit

RECURSIVE ScanString(_, _, _)
ScanString(s, j, acc) ==
  IF j > Len(s) THEN [ok |-> FALSE, val |-> <<>>, next |-> 0]
  ELSE IF s[j] = Quote THEN [ok |-> TRUE, val |-> acc, next |-> j + 1]
  ELSE IF s[j] = Backslash
       THEN IF j + 1 <= Len(s) /\ s[j + 1] \in {Quote, Backslash, "/"}
            THEN ScanString(s, j + 2, Append(acc, s[j + 1]))
            ELSE [ok |-> FALSE, val |-> <<>>, next |-> 0]
  ELSE IF s[j] \in {"\t", "\n", "\r"} THEN [ok |-> FALSE, val |-> <<>>, next |-> 0]
  ELSE ScanString(s, j + 1, Append(acc, s[j]))

RECURSIVE ScanDigits(_, _)
ScanDigits(s, j) == IF j <= Len(s) /\ s[j] \in JsonDigits THEN ScanDigits(s, j + 1) ELSE j

RECURSIVE ParseValue(_, _), ParseMembers(_, _, _), ParseElements(_, _, _)
ParseValue(s, i) ==
  IF i > Len(s) THEN JsonFail
  ELSE IF s[i] = Quote
       THEN LET r == ScanString(s, i + 1, <<>>)
            IN IF r.ok THEN [ok |-> TRUE, val |-> JStr(r.val), next |-> r.next] ELSE JsonFail
  ELSE IF s[i] = "{"
       THEN LET j == SkipWs(s, i + 1)
            IN IF IsAt(s, j, "}") THEN [ok |-> TRUE, val |-> JObj(<<>>), next |-> j + 1]
               ELSE ParseMembers(s, j, <<>>)
  ELSE IF s[i] = "["
       THEN LET j == SkipWs(s, i + 1)
            IN IF IsAt(s, j, "]") THEN [ok |-> TRUE, val |-> JArr(<<>>), next |-> j + 1]
               ELSE ParseElements(s, j, <<>>)
  ELSE IF StartsAt(s, i, LitNull) THEN [ok |-> TRUE, val |-> JNull, next |-> i + 4]
  ELSE IF StartsAt(s, i, LitTrue) THEN [ok |-> TRUE, val |-> JBool(LitTrue), next |-> i + 4]
  ELSE IF StartsAt(s, i, LitFalse) THEN [ok |-> TRUE, val |-> JBool(LitFalse), next |-> i + 5]
  ELSE IF s[i] = "0" THEN [ok |-> TRUE, val |-> JNum(<<"0">>), next |-> i + 1]
  ELSE IF s[i] \in JsonDigits
       THEN LET j == ScanDigits(s, i)
            IN [ok |-> TRUE, val |-> JNum(SubSeq(s, i, j - 1)), next |-> j]
  ELSE JsonFail

ParseMembers(s, i, props) ==
  IF ~IsAt(s, i, Quote) THEN JsonFail
  ELSE LET key == ScanString(s, i + 1, <<>>)
       IN IF ~key.ok THEN JsonFail
          ELSE LET c == SkipWs(s, key.next)
               IN IF ~IsAt(s, c, ":") THEN JsonFail
                  ELSE LET v == ParseValue(s, SkipWs(s, c + 1))
                       IN IF ~v.ok THEN JsonFail
                          ELSE LET m == SkipWs(s, v.next)
                                   now == ObjDefine(props, key.val, v.val)
                               IN IF IsAt(s, m, ",") THEN ParseMembers(s, SkipWs(s, m + 1), now)
                                  ELSE IF IsAt(s, m, "}")
                                       THEN [ok |-> TRUE, val |-> JObj(now), next |-> m + 1]
                                  ELSE JsonFail

ParseElements(s, i, elems) ==
  LET v == ParseValue(s, i)
  IN IF ~v.ok THEN JsonFail
     ELSE LET m == SkipWs(s, v.next)
              now == Append(elems, v.val)
          IN IF IsAt(s, m, ",") THEN ParseElements(s, SkipWs(s, m + 1), now)
             ELSE IF IsAt(s, m, "]") THEN [ok |-> TRUE, val |-> JArr(now), next |-> m + 1]
             ELSE JsonFail

JSON_parse(text) ==
  LET r == ParseValue(text, SkipWs(text, 1))
  IN IF r.ok /\ SkipWs(text, r.next) = Len(text) + 1
     THEN [ok |-> TRUE, val |-> r.val]
     ELSE [ok |-> FALSE, val |-> JNull]

(***************************************************************************)
(* Request headers: the own properties of req.headers in order, each       *)
(* [name, multi, list]: node gives a string (multi = FALSE, list of one)   *)
(* or, for set-cookie, an array of strings (multi = TRUE).                 *)
(***************************************************************************)
LowerLetters == <<"a","b","c","d","e","f","g","h","i","j","k","l","m",
                  "n","o","p","q","r","s","t","u","v","w","x","y","z">>
UpperLetters == <<"A","B","C","D","E","F","G","H","I","J","K","L","M",
                  "N","O","P","Q","R","S","T","U","V","W","X","Y","Z">>

toUpperCase(c) ==
  IF \E i \in 1..26 : LowerLetters[i] = c
  THEN UpperLetters[CHOOSE i \in 1..26 : LowerLetters[i] = c]
  ELSE c

\* variant: every word of the name is capitalised (Content-Type)
RECURSIVE CapitalizeWords(_, _)
CapitalizeWords(key, atStart) ==
  IF key = <<>> THEN <<>>
  ELSE <<IF atStart THEN toUpperCase(Head(key)) ELSE Head(key)>>
       \o CapitalizeWords(Tail(key), Head(key) = "-")

capitalizedKeyEachWord(key) == CapitalizeWords(key, TRUE)

\* key.charAt(0).toUpperCase() + key.slice(1)
capitalizedKey(key) ==
  IF key = <<>> THEN <<>> ELSE <<toUpperCase(Head(key))>> \o Tail(key)

RECURSIVE ParseHeadersFrom(_, _)
ParseHeadersFrom(result, headers) ==
  IF headers = <<>> THEN result
  ELSE ParseHeadersFrom(
         ObjAssign(result, capitalizedKey(Head(headers).name),
                   IF Head(headers).multi THEN Head(headers).list
                   ELSE <<Head(headers).list[1]>>),
         Tail(headers))

parseHeaders(headers) == ParseHeadersFrom(<<>>, headers)

HasHeader(headers, name) == \E i \in 1..Len(headers) : headers[i].name = name

\* req.headers[name] || ""
HeaderOrEmpty(headers, name) ==
  IF HasHeader(headers, name)
  THEN headers[CHOOSE i \in 1..Len(headers) : headers[i].name = name].list[1]
  ELSE <<>>

\* req.headers as node builds it from the header lines of the request, in
\* the order received: names are lower-cased; set-cookie collects an array;
\* of host and content-type the first line is kept; any other repeated name
\* is joined with ", ".  The object is created by {}, so that a line named
\* __proto__ assigns a string to the inherited accessor and leaves no
\* property.
toLowerCase(c) ==
  IF \E i \in 1..26 : UpperLetters[i] = c
  THEN LowerLetters[CHOOSE i \in 1..26 : UpperLetters[i] = c]
  ELSE c

RECURSIVE LowerCased(_)
LowerCased(s) ==
  IF s = <<>> THEN <<>> ELSE <<toLowerCase(Head(s))>> \o LowerCased(Tail(s))

SetCookieName == <<"s","e","t","-","c","o","o","k","i","e">>

SingletonHeaders == {HostName, ContentTypeName}

AddHeaderLine(dest, name, value) ==
  LET field == LowerCased(name)
  IN IF field = SetCookieName
     THEN ObjDefine(dest, field,
                    [multi |-> TRUE,
                     list |-> IF ObjHas(dest, field)
                              THEN Append(ObjGet(dest, field).list, value)
                              ELSE <<value>>])
     ELSE IF field \in SingletonHeaders
          THEN IF ObjHas(dest, field) THEN dest
               ELSE ObjDefine(dest, field, [multi |-> FALSE, list |-> <<value>>])
     ELSE IF ObjHas(dest, field)
          THEN ObjDefine(dest, field,
                         [multi |-> FALSE,
                          list |-> <<ObjGet(dest, field).list[1] \o <<",", " ">> \o value>>])
     ELSE ObjAssign(dest, field, [multi |-> FALSE, list |-> <<value>>])

RECURSIVE AddHeaderLines(_, _)
AddHeaderLines(dest, lines) ==
  IF lines = <<>> THEN dest
  ELSE AddHeaderLines(AddHeaderLine(dest, Head(lines).name, Head(lines).value), Tail(lines))

\* Object.entries(req.headers)
RECURSIVE HeaderEntries(_)
HeaderEntries(dest) ==
  IF dest = <<>> THEN <<>>
  ELSE <<[name |-> Head(dest).k, multi |-> Head(dest).v.multi, list |-> Head(dest).v.list]>>
       \o HeaderEntries(Tail(dest))

IncomingHeaders(lines) == HeaderEntries(AddHeaderLines(<<>>, lines))

Undefined == <<"u","n","d","e","f","i","n","e","d">>

\* the host interpolated in `http://${req.headers.host}`
HostOf(headers) ==
  IF HasHeader(headers, HostName) THEN HeaderOrEmpty(headers, HostName) ELSE Undefined

(***************************************************************************)
(* The response object: status and Content-Type as last written, what was  *)
(* passed to end(), and how often writeHead() and end() were called.       *)
(***************************************************************************)
NoPayload == [none |-> TRUE]

NewResponse ==
  [status |-> 0, ctype |-> <<>>, kind |-> "none", text |-> <<>>,
   payload |-> NoPayload, heads |-> 0, ends |-> 0]

setHeader(res, ctype) == [res EXCEPT !.ctype = ctype]

writeHead(res, status, ctype) ==
  [res EXCEPT !.status = status, !.ctype = ctype, !.heads = @ + 1]

\* res.end(text)
endText(res, text) == [res EXCEPT !.kind = "text", !.text = text, !.ends = @ + 1]

\* res.end(JSON.stringify(payload, null, 2)): the payload is kept as the
\* record that is serialised
endJson(res, payload) == [res EXCEPT !.kind = "json", !.payload = payload, !.ends = @ + 1]

(***************************************************************************)
(* The handlers registered in main.ts                                      *)
(***************************************************************************)
MaxUptime == 1

\* new Date().toISOString() at second n of the epoch
toISOString(n) ==
  <<"1","9","7","0","-","0","1","-","0","1","T","0","0",":","0","0",":","0",
    Digits[n + 1],".","0","0","0","Z">>

\* the fields of the response that do not depend on the body
MirrorBase(req) ==
  LET parsedUrl == ParseUrl(req.url, HostOf(req.headers))
  IN [args |-> fromEntries(searchParams(parsedUrl.query)),
      headers |-> parseHeaders(req.headers),
      method |-> req.method,
      origin |-> IF req.remote = <<>> THEN Unknown ELSE req.remote,
      url |-> parsedUrl.href,
      files |-> <<>>]

MirrorRecord(base, data, form, json) ==
  [args |-> base.args, headers |-> base.headers, method |-> base.method,
   origin |-> base.origin, url |-> base.url, data |-> data, files |-> base.files,
   form |-> form, json |-> json]

\* variant: a body of any other content type is parsed as a form
MirrorResponseDefaultForm(req, body) ==
  LET contentType == HeaderOrEmpty(req.headers, ContentTypeName)
      isJson == Includes(contentType, AppJson)
      parsed == JSON_parse(body)
  IN MirrorRecord(MirrorBase(req), body,
                  IF ~isJson THEN parseForm(body) ELSE <<>>,
                  IF isJson /\ parsed.ok THEN parsed.val ELSE JNull)

\* variant: data is the decoded body
MirrorResponseDecodedData(req, body) ==
  LET contentType == HeaderOrEmpty(req.headers, ContentTypeName)
      isJson == Includes(contentType, AppJson)
      isForm == ~isJson /\ Includes(contentType, AppForm)
      parsed == JSON_parse(body)
  IN MirrorRecord(MirrorBase(req), Decode(body),
                  IF isForm THEN parseForm(body) ELSE <<>>,
                  IF isJson /\ parsed.ok THEN parsed.val ELSE JNull)

\* variant: the two content types are tested independently (if, not else if)
MirrorResponseBothParsed(req, body) ==
  LET contentType == HeaderOrEmpty(req.headers, ContentTypeName)
      isJson == Includes(contentType, AppJson)
      isForm == Includes(contentType, AppForm)
      parsed == JSON_parse(body)
  IN MirrorRecord(MirrorBase(req), body,
                  IF isForm THEN parseForm(body) ELSE <<>>,
                  IF isJson /\ parsed.ok THEN parsed.val ELSE JNull)

\* variant: origin is the remote address without the "unknown" fallback
MirrorResponseRawOrigin(req, body) ==
  LET contentType == HeaderOrEmpty(req.headers, ContentTypeName)
      isJson == Includes(contentType, AppJson)
      isForm == ~isJson /\ Includes(contentType, AppForm)
      parsed == JSON_parse(body)
  IN [MirrorRecord(MirrorBase(req), body,
                   IF isForm THEN parseForm(body) ELSE <<>>,
                   IF isJson /\ parsed.ok THEN parsed.val ELSE JNull)
        EXCEPT !.origin = req.remote]

\* variant: a body that fails to parse as JSON is parsed as a form when the
\* Content-Type names the form type too
MirrorResponseFormFallback(req, body) ==
  LET contentType == HeaderOrEmpty(req.headers, ContentTypeName)
      isJson == Includes(contentType, AppJson)
      parsed == JSON_parse(body)
      isForm == (~isJson \/ ~parsed.ok) /\ Includes(contentType, AppForm)
  IN MirrorRecord(MirrorBase(req), body,
                  IF isForm THEN parseForm(body) ELSE <<>>,
                  IF isJson /\ parsed.ok THEN parsed.val ELSE JNull)

\* router.post("/post", ...)
MirrorResponse(req, body) ==
  LET parsedUrl == ParseUrl(req.url, HostOf(req.headers))
      contentType == HeaderOrEmpty(req.headers, ContentTypeName)
      isJson == Includes(contentType, AppJson)
      isForm == ~isJson /\ Includes(contentType, AppForm)
      parsed == JSON_parse(body)
  IN [args |-> fromEntries(searchParams(parsedUrl.query)),
      headers |-> parseHeaders(req.headers),
      method |-> req.method,
      origin |-> IF req.remote = <<>> THEN Unknown ELSE req.remote,
      url |-> parsedUrl.href,
      data |-> body,
      files |-> <<>>,
      form |-> IF isForm THEN parseForm(body) ELSE <<>>,
      json |-> IF isJson /\ parsed.ok THEN parsed.val ELSE JNull]

\* variant: JSON.parse outside try/catch, the SyntaxError leaves the handler
\* before anything is written
MirrorHandlerNoCatch(req, body) ==
  IF Includes(HeaderOrEmpty(req.headers, ContentTypeName), AppJson) /\ ~JSON_parse(body).ok
  THEN {[req EXCEPT !.pc = "done"]}
  ELSE {[req EXCEPT !.res = endJson(writeHead(@, 200, AppJson), MirrorResponse(req, body)),
                    !.pc = "done"]}

MirrorHandler(req, body) ==
  {[req EXCEPT !.res = endJson(writeHead(@, 200, AppJson), MirrorResponse(req, body)),
               !.pc = "done"]}

\* process.env.NODE_ENV: not set, or set to a string (possibly empty)
EnvUnset == [set |-> FALSE, value |-> <<>>]
EnvSet(value) == [set |-> TRUE, value |-> value]

\* variant: a NODE_ENV that is set is reported as it is, empty or not
HealthHandlerNullish(req, env) ==
  {[req EXCEPT !.res = endJson(writeHead(@, 200, AppJson),
                               [status |-> Healthy,
                                timestamp |-> toISOString(u),
                                uptime |-> u,
                                environment |-> IF env.set THEN env.value ELSE Development]),
               !.pc = "done"] : u \in 0..MaxUptime}

\* router.get("/health", ...)
HealthHandler(req, env) ==
  {[req EXCEPT !.res = endJson(writeHead(@, 200, AppJson),
                               [status |-> Healthy,
                                timestamp |-> toISOString(u),
                                uptime |-> u,
                                environment |-> IF env.set /\ env.value # <<>>
                                                THEN env.value ELSE Development]),
               !.pc = "done"] : u \in 0..MaxUptime}

\* variant: the body is declared with the Content-Type of the request
RootHandlerEcho(req) ==
  {[req EXCEPT !.res = endText(writeHead(@, 200,
                                         IF HasHeader(req.headers, ContentTypeName)
                                         THEN HeaderOrEmpty(req.headers, ContentTypeName)
                                         ELSE TextHtml),
                               HelloWorld),
               !.pc = "done"]}

\* router.get("/", ...)
RootHandler(req) ==
  {[req EXCEPT !.res = endText(writeHead(@, 200, TextHtml), HelloWorld), !.pc = "done"]}

\* router.get("/forms/post", ...): the part before the readFile callback
FormsPostHandler(req) ==
  {[req EXCEPT !.res = setHeader(@, TextHtml), !.pc = "reading"]}

\* what fs.readFile hands to its callback: (null, data) or (err, undefined)
ReadOk(data) == [err |-> "null", data |-> data]
ReadFail(code) == [err |-> code, data |-> <<>>]
NoRead == [err |-> "pending", data |-> <<>>]

InternalError == <<"I","n","t","e","r","n","a","l"," ","e","r","r","o","r">>

\* variant: only a missing file is a 404, any other error is a 500
FormsPostCallbackByCode(req, err, data) ==
  IF err = "ENOENT"
  THEN [req EXCEPT !.res = endText(writeHead(@, 404, TextPlain), FileNotFound), !.pc = "done"]
  ELSE IF err # "null"
  THEN [req EXCEPT !.res = endText(writeHead(@, 500, TextPlain), InternalError), !.pc = "done"]
  ELSE [req EXCEPT !.res = endText(writeHead(@, 200, TextHtml), data), !.pc = "done"]

\* variant: the error branch does not return, the success branch follows it
FormsPostCallbackNoReturn(req, err, data) ==
  LET failed == [req EXCEPT !.res = endText(writeHead(@, 404, TextPlain), FileNotFound)]
  IN IF err # "null"
     THEN [failed EXCEPT !.res = endText(writeHead(@, 200, TextHtml), data), !.pc = "done"]
     ELSE [req EXCEPT !.res = endText(writeHead(@, 200, TextHtml), data), !.pc = "done"]

\* the fs.readFile callback of /forms/post
FormsPostCallback(req, err, data) ==
  IF err # "null"
  THEN [req EXCEPT !.res = endText(writeHead(@, 404, TextPlain), FileNotFound), !.pc = "done"]
  ELSE [req EXCEPT !.res = endText(writeHead(@, 200, TextHtml), data), !.pc = "done"]

\* a test double (vi.fn()): records the call and writes nothing
MockHandler(req) == {[req EXCEPT !.pc = "done"]}

BuiltinHandlers == {"formsPost", "mirror", "health", "root"}
MockHandlers == {"h1", "h2"}

\* handler(req, res) for GET, handler(req, res, body) for POST: the request
\* after the call, one element per possible outcome
Invoke(h, req, withBody, body, env) ==
  LET called == [req EXCEPT !.calls = Append(@, [handler |-> h, withBody |-> withBody,
                                                 body |-> body, ended |-> req.ended])]
  IN CASE h = "mirror" -> MirrorHandler(called, body)
       [] h = "health" -> HealthHandler(called, env)
       [] h = "root" -> RootHandler(called)
       [] h = "formsPost" -> FormsPostHandler(called)
       [] OTHER -> MockHandler(called)

(***************************************************************************)
(* Router                                                                  *)
(***************************************************************************)
Route(method, path, handler) == [method |-> method, path |-> path, handler |-> handler]

\* the routes registered when main.ts is loaded, in registration order
BuiltinRoutes ==
  << Route("GET", PathForms, "formsPost"),
     Route("POST", PathPost, "mirror"),
     Route("GET", PathHealth, "health"),
     Route("GET", PathRoot, "root") >>

\* variant: a registered path matches every pathname it is a prefix of
FindRoutePrefix(rs, method, pathname) ==
  LET hit(i) == /\ rs[i].method = method
                /\ Len(rs[i].path) <= Len(pathname)
                /\ SubSeq(pathname, 1, Len(rs[i].path)) = rs[i].path
  IN IF \E i \in 1..Len(rs) : hit(i)
     THEN CHOOSE i \in 1..Len(rs) : hit(i) /\ \A j \in 1..(i - 1) : ~hit(j)
     ELSE 0

\* variant: the method is not compared
FindRouteAnyMethod(rs, method, pathname) ==
  IF \E i \in 1..Len(rs) : rs[i].path = pathname
  THEN CHOOSE i \in 1..Len(rs) :
         rs[i].path = pathname /\ \A j \in 1..(i - 1) : rs[j].path # pathname
  ELSE 0

\* variant: the last match is taken
FindRouteLast(rs, method, pathname) ==
  IF \E i \in 1..Len(rs) : rs[i].method = method /\ rs[i].path = pathname
  THEN CHOOSE i \in 1..Len(rs) :
         /\ rs[i].method = method /\ rs[i].path = pathname
         /\ \A j \in (i + 1)..Len(rs) : ~(rs[j].method = method /\ rs[j].path = pathname)
  ELSE 0

\* this.routes.find(r => r.method === method && r.path === pathname):
\* the index of the first match, 0 for undefined
FindRoute(rs, method, pathname) ==
  IF \E i \in 1..Len(rs) : rs[i].method = method /\ rs[i].path = pathname
  THEN CHOOSE i \in 1..Len(rs) :
         /\ rs[i].method = method /\ rs[i].path = pathname
         /\ \A j \in 1..(i - 1) : ~(rs[j].method = method /\ rs[j].path = pathname)
  ELSE 0

\* a request as it reaches Router.handle: nothing read, nothing written
Arrive(r) ==
  [method |-> r.method, url |-> r.url, headers |-> r.headers, remote |-> r.remote,
   gen |-> r.gen,
   pc |-> "new", handler |-> "none", route |-> 0,
   received |-> <<>>, body |-> <<>>, ended |-> FALSE, read |-> NoRead,
   calls |-> <<>>, res |-> NewResponse]

\* variant: a (method, path) that is already registered is not added again
postUnique(path, handler) ==
  /\ nRegs < MaxRegs
  /\ routes' = IF \E i \in 1..Len(routes) : routes[i].method = "POST" /\ routes[i].path = path
               THEN routes
               ELSE Append(routes, Route("POST", path, handler))
  /\ nRegs' = nRegs + 1
  /\ UNCHANGED <<reqs, nodeEnv, portEnv, listening, stepVars>>

\* Router.get / Router.post
get(path, handler) ==
  /\ nRegs < MaxRegs
  /\ routes' = Append(routes, Route("GET", path, handler))
  /\ nRegs' = nRegs + 1
  /\ UNCHANGED <<reqs, nodeEnv, portEnv, listening, stepVars>>

post(path, handler) ==
  /\ nRegs < MaxRegs
  /\ routes' = Append(routes, Route("POST", path, handler))
  /\ nRegs' = nRegs + 1
  /\ UNCHANGED <<reqs, nodeEnv, portEnv, listening, stepVars>>

\* router.routes = [] (the unit tests' beforeEach)
ResetRoutes ==
  /\ routes # <<>>
  /\ routes' = <<>>
  /\ UNCHANGED <<reqs, nRegs, nodeEnv, portEnv, listening, stepVars>>

\* Router.handlePost: the two listeners are registered, body = ""
handlePost(req, handler) == [req EXCEPT !.pc = "buffering", !.handler = handler, !.body = <<>>]

\* the else branch of Router.handle
RespondNotFound(req) ==
  [req EXCEPT !.res = endText(writeHead(@, 404, TextPlain), NotFound), !.pc = "done"]

\* variant: every matched request is buffered, whatever its method
handleBufferAll(r) ==
  /\ LET req == Arrive(r)
         pathname == ParseUrl(req.url, HostOf(req.headers)).pathname
         idx == FindRoute(routes, req.method, pathname)
     IN IF idx # 0
        THEN LET found == [req EXCEPT !.route = idx, !.handler = routes[idx].handler]
             IN reqs' = Append(reqs, handlePost(found, routes[idx].handler))
        ELSE reqs' = Append(reqs, RespondNotFound(req))
  /\ UNCHANGED <<routes, nRegs, nodeEnv, portEnv, listening, stepVars>>

\* variant: the body of a POST request is buffered before the route is
\* looked up, and the 404 response waits for the end of the body
handleBufferFirst(r) ==
  /\ LET req == Arrive(r)
         pathname == ParseUrl(req.url, HostOf(req.headers)).pathname
         idx == FindRoute(routes, req.method, pathname)
         found == [req EXCEPT !.route = idx,
                              !.handler = IF idx # 0 THEN routes[idx].handler ELSE "none"]
     IN IF req.method = "POST"
        THEN reqs' = Append(reqs, handlePost(found, found.handler))
        ELSE IF idx # 0
        THEN \E q \in Invoke(routes[idx].handler, found, FALSE, <<>>, nodeEnv) :
               reqs' = Append(reqs, q)
        ELSE reqs' = Append(reqs, RespondNotFound(req))
  /\ UNCHANGED <<routes, nRegs, nodeEnv, portEnv, listening, stepVars>>

\* Router.handle(req, res); when new URL throws, the exception leaves
\* handle and the request listener with nothing written
handle(r) ==
  /\ LET req == Arrive(r)
         parsedUrl == ParseUrl(req.url, HostOf(req.headers))
         idx == FindRoute(routes, req.method, parsedUrl.pathname)
     IN IF ~parsedUrl.ok
        THEN reqs' = Append(reqs, [req EXCEPT !.pc = "threw"])
        ELSE IF idx # 0
        THEN LET found == [req EXCEPT !.route = idx, !.handler = routes[idx].handler]
             IN IF req.method = "POST"
                THEN reqs' = Append(reqs, handlePost(found, routes[idx].handler))
                ELSE \E q \in Invoke(routes[idx].handler, found, FALSE, <<>>, nodeEnv) :
                       reqs' = Append(reqs, q)
        ELSE reqs' = Append(reqs, RespondNotFound(req))
  /\ UNCHANGED <<routes, nRegs, nodeEnv, portEnv, listening, stepVars>>

\* variant: the chunk is put in front of the body
OnDataPrepend(i, chunk) ==
  /\ reqs[i].pc = "buffering"
  /\ reqs' = [reqs EXCEPT ![i] =
                [@ EXCEPT !.body = chunkToString(chunk) \o @,
                          !.received = Append(@, chunk)]]
  /\ UNCHANGED <<routes, nRegs, nodeEnv, portEnv, listening, stepVars>>

\* variant: the handler is called with what has arrived as soon as a chunk
\* arrives
OnDataInvokeEarly(i, chunk) ==
  /\ reqs[i].pc = "buffering"
  /\ LET got == [reqs[i] EXCEPT !.body = @ \o chunkToString(chunk),
                                !.received = Append(@, chunk)]
     IN \E q \in Invoke(got.handler, got, TRUE, got.body, nodeEnv) :
          reqs' = [reqs EXCEPT ![i] = q]
  /\ UNCHANGED <<routes, nRegs, nodeEnv, portEnv, listening, stepVars>>

\* variant: one body buffer shared by the requests that are being buffered
OnDataShared(i, chunk) ==
  /\ reqs[i].pc = "buffering"
  /\ reqs' = [j \in 1..Len(reqs) |->
                IF reqs[j].pc # "buffering"
                THEN reqs[j]
                ELSE [reqs[j] EXCEPT !.body = @ \o chunkToString(chunk),
                                     !.received = IF j = i THEN Append(@, chunk) ELSE @]]
  /\ UNCHANGED <<routes, nRegs, nodeEnv, portEnv, listening, stepVars>>

\* req.on("data", chunk => { body += chunk.toString(); })
OnData(i, chunk) ==
  /\ reqs[i].pc = "buffering"
  /\ reqs' = [reqs EXCEPT ![i] =
                [@ EXCEPT !.body = @ \o chunkToString(chunk),
                          !.received = Append(@, chunk)]]
  /\ UNCHANGED <<routes, nRegs, nodeEnv, portEnv, listening, stepVars>>

\* variant: a route is taken out of the table once its handler has been
\* called
OnEndOneShot(i) ==
  /\ reqs[i].pc = "buffering"
  /\ \E q \in Invoke(reqs[i].handler, [reqs[i] EXCEPT !.ended = TRUE], TRUE,
                     reqs[i].body, nodeEnv) :
       reqs' = [reqs EXCEPT ![i] = q]
  /\ routes' = [k \in 1..(Len(routes) - 1) |->
                  IF k < reqs[i].route THEN routes[k] ELSE routes[k + 1]]
  /\ UNCHANGED <<nRegs, nodeEnv, portEnv, listening, stepVars>>

\* req.on("end", () => { handler(req, res, body); })
OnEnd(i) ==
  /\ reqs[i].pc = "buffering"
  /\ \E q \in Invoke(reqs[i].handler, [reqs[i] EXCEPT !.ended = TRUE], TRUE,
                     reqs[i].body, nodeEnv) :
       reqs' = [reqs EXCEPT ![i] = q]
  /\ UNCHANGED <<routes, nRegs, nodeEnv, portEnv, listening, stepVars>>

\* fs.readFile(filePath, (err, data) => ...) calls back; the outcome is
\* noted in the request
ReadFileDone(i, out) ==
  /\ reqs[i].pc = "reading"
  /\ reqs' = [reqs EXCEPT ![i] = [FormsPostCallback(@, out.err, out.data) EXCEPT !.read = out]]
  /\ UNCHANGED <<routes, nRegs, nodeEnv, portEnv, listening, stepVars>>

(***************************************************************************)
(* The browser-driving steps of specs/steps/form.ts.  page is this.page:   *)
(* "null" before setupBrowser, "open" after it, "closed" after             *)
(* teardownBrowser (the field keeps the closed page).  stepEnv is          *)
(* process.env as the steps read it.  lastStep is the step that ran last:  *)
(* its arguments, the calls it made on the page, in order and with their   *)
(* outcome, and the error it threw.                                        *)
(***************************************************************************)
MaxActive == 2

startsWith(s, prefix) == Len(s) >= Len(prefix) /\ SubSeq(s, 1, Len(prefix)) = prefix

\* s.indexOf(sub), counted from 0, -1 when absent
indexOf(s, sub) ==
  IF Includes(s, sub)
  THEN CHOOSE i \in 0..(Len(s) - Len(sub)) :
         /\ SubSeq(s, i + 1, i + Len(sub)) = sub
         /\ \A j \in 0..(i - 1) : SubSeq(s, j + 1, j + Len(sub)) # sub
  ELSE -1

\* s.replace(pattern, by) with a string pattern: the first occurrence only
replace(s, pattern, by) ==
  LET i == indexOf(s, pattern)
  IN IF i < 0 THEN s ELSE SubSeq(s, 1, i) \o by \o SubSeq(s, i + Len(pattern) + 1, Len(s))

EnvWord == <<"e","n","v">>
EnvColon == <<"e","n","v",":">>
HttpbinFormUrl == <<"H","T","T","P","B","I","N","_","F","O","R","M","_","U","R","L">>
FormPage == <<"h","t","t","p",":","/","/","h","/","f">>

\* process.env[name]
ProcessEnv(env, name) == IF name \in DOMAIN env THEN env[name] ELSE EnvUnset

NoError == [thrown |-> FALSE, message |-> "", names |-> <<>>]
Error(message, names) == [thrown |-> TRUE, message |-> message, names |-> names]
PageNotInitializedHook == Error("Page not initialized. Make sure BeforeScenario hook ran.", <<>>)
PageNotInitialized == Error("Page not initialized.", <<>>)
\* an error thrown by Playwright and not caught by the step
PlaywrightError(op) == Error("playwright", op)

Call(op, target, arg, result) == [op |-> op, target |-> target, arg |-> arg, result |-> result]

StepDone(step, args, calls, error) ==
  [step |-> step, args |-> args, calls |-> calls, error |-> error]
NoStep == StepDone("none", <<>>, <<>>, NoError)

StepsIdle ==
  /\ page = "null"
  /\ stepEnv = [n \in {HttpbinFormUrl} |-> EnvUnset]
  /\ lastStep = NoStep

\* variant: a reference that cannot be resolved is navigated to as it is
ResolveUrlKeep(url, env) ==
  IF startsWith(url, EnvWord)
  THEN LET envUrl == ProcessEnv(env, replace(url, EnvColon, <<>>))
       IN IF ~(envUrl.set /\ envUrl.value # <<>>)
          THEN [error |-> NoError, url |-> url]
          ELSE [error |-> NoError, url |-> envUrl.value]
  ELSE [error |-> NoError, url |-> url]

\* navigateToUrl, the if (url.startsWith("env")) block: the URL to go to,
\* or the error thrown
ResolveUrl(url, env) ==
  IF startsWith(url, EnvWord)
  THEN LET envUrl == ProcessEnv(env, replace(url, EnvColon, <<>>))
       IN IF ~(envUrl.set /\ envUrl.value # <<>>)
          THEN [error |-> Error("Environment variable for URL '?' is not set.", url),
                url |-> url]
          ELSE [error |-> NoError, url |-> envUrl.value]
  ELSE [error |-> NoError, url |-> url]

\* await page.goto(url); await page.waitForLoadState("networkidle"): the
\* calls made and the error that leaves the step, one per outcome
GotoOutcomes(url) ==
  IF page = "closed"
  THEN {[calls |-> <<Call("goto", url, "", "throws")>>, error |-> PlaywrightError("goto")]}
  ELSE {[calls |-> <<Call("goto", url, "", "throws")>>, error |-> PlaywrightError("goto")],
        [calls |-> <<Call("goto", url, "", "ok"),
                     Call("waitForLoadState", "networkidle", "", "throws")>>,
         error |-> PlaywrightError("waitForLoadState")],
        [calls |-> <<Call("goto", url, "", "ok"),
                     Call("waitForLoadState", "networkidle", "", "ok")>>,
         error |-> NoError]}

\* @BeforeScenario setupBrowser
setupBrowser ==
  /\ page' = "open"
  /\ lastStep' = StepDone("setupBrowser", <<>>, <<>>, NoError)
  /\ UNCHANGED <<routes, reqs, nRegs, nodeEnv, portEnv, listening, stepEnv>>

\* @AfterScenario teardownBrowser
teardownBrowser ==
  /\ page' = IF page = "null" THEN "null" ELSE "closed"
  /\ lastStep' = StepDone("teardownBrowser", <<>>,
                          IF page = "null" THEN <<>> ELSE <<Call("close", "", "", "ok")>>,
                          NoError)
  /\ UNCHANGED <<routes, reqs, nRegs, nodeEnv, portEnv, listening, stepEnv>>

\* @Step("Navigate to <url>")
navigateToUrl(url) ==
  /\ IF page = "null"
     THEN lastStep' = StepDone("navigateToUrl", <<url>>, <<>>, PageNotInitializedHook)
     ELSE LET resolved == ResolveUrl(url, stepEnv)
          IN IF resolved.error.thrown
             THEN lastStep' = StepDone("navigateToUrl", <<url>>, <<>>, resolved.error)
             ELSE \E o \in GotoOutcomes(resolved.url) :
                    lastStep' = StepDone("navigateToUrl", <<url>>, o.calls, o.error)
  /\ UNCHANGED <<routes, reqs, nRegs, nodeEnv, portEnv, listening, page, stepEnv>>

Selector(template, value) == [template |-> template, value |-> value]

\* const selectors = [...] of enterTextIntoField
FieldSelectors(fieldName) ==
  << Selector("input[name=\"?\"]", fieldName),
     Selector("textarea[name=\"?\"]", fieldName),
     Selector("#?", fieldName),
     Selector("[data-testid=\"?\"]", fieldName) >>

\* const selectors = [...] of clickButton
ButtonSelectors(buttonText) ==
  << Selector("button:has-text(\"?\")", buttonText),
     Selector("input[type=\"submit\"][value=\"?\"]", buttonText),
     Selector("input[type=\"button\"][value=\"?\"]", buttonText),
     Selector("[role=\"button\"]:has-text(\"?\")", buttonText),
     Selector("button:text(\"?\")", buttonText),
     Selector("input[value=\"?\"]", buttonText) >>

\* How the page answers the calls a step makes on one selector: isVisible
\* gives false ("hidden") or throws, or it gives true and then the wait
\* throws, or the action (fill, click) throws, or nothing throws ("ok").
Behaviours == {"hidden", "isVisibleThrows", "waitThrows", "actThrows", "ok"}

\* the pages on which at most MaxActive of n selectors are not plainly hidden
Pages(n) ==
  {b \in [1..n -> Behaviours] : Cardinality({k \in 1..n : b[k] # "hidden"}) <= MaxActive}

FieldPages == Pages(4)
ButtonPages == Pages(6)

\* the for loop of enterTextIntoField from selector k on: the calls made and
\* the final fieldFound
RECURSIVE FillFrom(_, _, _, _)
FillFrom(selectors, behave, text, k) ==
  IF k > Len(selectors)
  THEN [calls |-> <<>>, found |-> FALSE]
  ELSE LET sel == selectors[k]
           rest == FillFrom(selectors, behave, text, k + 1)
           continue(calls) == [calls |-> calls \o rest.calls, found |-> rest.found]
       IN CASE behave[k] = "hidden" ->
                 continue(<<Call("isVisible", sel, "", "false")>>)
            [] behave[k] = "isVisibleThrows" ->
                 continue(<<Call("isVisible", sel, "", "throws")>>)
            [] behave[k] = "waitThrows" ->
                 continue(<<Call("isVisible", sel, "", "true"),
                            Call("waitForSelector", sel, "visible", "throws")>>)
            [] behave[k] = "actThrows" ->
                 continue(<<Call("isVisible", sel, "", "true"),
                            Call("waitForSelector", sel, "visible", "ok"),
                            Call("fill", sel, text, "throws")>>)
            [] OTHER ->
                 [calls |-> <<Call("isVisible", sel, "", "true"),
                              Call("waitForSelector", sel, "visible", "ok"),
                              Call("fill", sel, text, "ok")>>,
                  found |-> TRUE]

\* the for loop of clickButton from selector k on
RECURSIVE ClickFrom(_, _, _)
ClickFrom(selectors, behave, k) ==
  IF k > Len(selectors)
  THEN [calls |-> <<>>, found |-> FALSE]
  ELSE LET sel == selectors[k]
           rest == ClickFrom(selectors, behave, k + 1)
           continue(calls) == [calls |-> calls \o rest.calls, found |-> rest.found]
       IN CASE behave[k] = "hidden" ->
                 continue(<<Call("isVisible", sel, "", "false")>>)
            [] behave[k] = "isVisibleThrows" ->
                 continue(<<Call("isVisible", sel, "", "throws")>>)
            [] behave[k] = "actThrows" ->
                 continue(<<Call("isVisible", sel, "", "true"),
                            Call("click", sel, "", "throws")>>)
            [] behave[k] = "waitThrows" ->
                 continue(<<Call("isVisible", sel, "", "true"),
                            Call("click", sel, "", "ok"),
                            Call("waitForLoadState", "networkidle", "", "throws")>>)
            [] OTHER ->
                 [calls |-> <<Call("isVisible", sel, "", "true"),
                              Call("click", sel, "", "ok"),
                              Call("waitForLoadState", "networkidle", "", "ok")>>,
                  found |-> TRUE]

\* every call on a closed page throws
ClosedPage(n) == [k \in 1..n |-> "isVisibleThrows"]

\* @Step("Enter <text> into the <fieldName> field"); behave is the page
enterTextIntoField(text, fieldName, behave) ==
  /\ page = "closed" => behave = ClosedPage(4)
  /\ IF page = "null"
     THEN lastStep' = StepDone("enterTextIntoField", <<text, fieldName>>, <<>>,
                               PageNotInitialized)
     ELSE LET tried == FillFrom(FieldSelectors(fieldName), behave, text, 1)
          IN lastStep' = StepDone("enterTextIntoField", <<text, fieldName>>, tried.calls,
                                  IF tried.found
                                  THEN NoError
                                  ELSE Error("Could not find field with name '?'", fieldName))
  /\ UNCHANGED <<routes, reqs, nRegs, nodeEnv, portEnv, listening, page, stepEnv>>

\* @Step("Click the <buttonText> button"); behave is the page
clickButton(buttonText, behave) ==
  /\ page = "closed" => behave = ClosedPage(6)
  /\ IF page = "null"
     THEN lastStep' = StepDone("clickButton", <<buttonText>>, <<>>, PageNotInitialized)
     ELSE LET tried == ClickFrom(ButtonSelectors(buttonText), behave, 1)
          IN lastStep' = StepDone("clickButton", <<buttonText>>, tried.calls,
                                  IF tried.found
                                  THEN NoError
                                  ELSE Error("Could not find button with text '?'", buttonText))
  /\ UNCHANGED <<routes, reqs, nRegs, nodeEnv, portEnv, listening, page, stepEnv>>

\* the scenario of specs/form.spec and its neighbours: the variable is not
\* set, set to the empty string or set to the address of the form
StepEnvs ==
  {[n \in {HttpbinFormUrl} |-> v] : v \in {EnvUnset, EnvSet(<<>>), EnvSet(FormPage)}}

NavigateUrls ==
  {EnvColon \o HttpbinFormUrl, EnvColon \o <<"X">>, EnvColon, EnvWord, FormPage}

InitSteps ==
  /\ routes = <<>>
  /\ reqs = <<>>
  /\ nRegs = 0
  /\ nodeEnv = EnvUnset
  /\ portEnv = EnvUnset
  /\ listening = <<>>
  /\ page = "null"
  /\ stepEnv \in StepEnvs
  /\ lastStep = NoStep

NextSteps ==
  \/ setupBrowser
  \/ teardownBrowser
  \/ \E url \in NavigateUrls : navigateToUrl(url)
  \/ \E behave \in FieldPages : enterTextIntoField("John Doe", "custname", behave)
  \/ \E behave \in ButtonPages : clickButton("Submit order", behave)

SpecSteps == InitSteps /\ [][NextSteps]_vars

(***************************************************************************)
(* startServer and the command-line entry point.  A JavaScript value is    *)
(* [t, n, s]: undefined, a number n, NaN or a string s.                    *)
(***************************************************************************)
MaxServers == 2

DefaultPort == 3000

JsUndefined == [t |-> "undefined", n |-> 0, s |-> <<>>]
JsNumber(n) == [t |-> "number", n |-> n, s |-> <<>>]
JsNaN == [t |-> "NaN", n |-> 0, s |-> <<>>]
JsString(s) == [t |-> "string", n |-> 0, s |-> s]

\* ToBoolean: undefined, 0, NaN and "" are falsy
Truthy(v) == (v.t = "number" /\ v.n # 0) \/ (v.t = "string" /\ v.s # <<>>)

\* a || b
Or(a, b) == IF Truthy(a) THEN a ELSE b

\* process.env.PORT
EnvValue(env) == IF env.set THEN JsString(env.value) ELSE JsUndefined

HexDigits == <<"0","1","2","3","4","5","6","7","8","9","a","b","c","d","e","f">>

IsDigitIn(c, radix) == \E n \in 1..radix : HexDigits[n] = toLowerCase(c)

DigitIn(c) == (CHOOSE n \in 1..16 : HexDigits[n] = toLowerCase(c)) - 1

RECURSIVE ParseDigits(_, _, _)
ParseDigits(s, radix, acc) ==
  IF s # <<>> /\ IsDigitIn(Head(s), radix)
  THEN ParseDigits(Tail(s), radix, acc * radix + DigitIn(Head(s)))
  ELSE acc

RECURSIVE TrimStart(_)
TrimStart(s) == IF s # <<>> /\ Head(s) \in JsonWs THEN TrimStart(Tail(s)) ELSE s

\* parseInt(str): leading white space, a sign, 0x for radix 16, then the
\* longest run of digits; NaN when there is no digit
parseInt(str) ==
  LET t == TrimStart(str)
      u == IF t # <<>> /\ Head(t) \in {"-", "+"} THEN Tail(t) ELSE t
      hex == Len(u) >= 2 /\ u[1] = "0" /\ u[2] \in {"x", "X"}
      radix == IF hex THEN 16 ELSE 10
      d == IF hex THEN Slice(u, 3) ELSE u
  IN IF d = <<>> \/ ~IsDigitIn(Head(d), radix) THEN JsNaN
     ELSE JsNumber((IF t # <<>> /\ Head(t) = "-" THEN -1 ELSE 1) * ParseDigits(d, radix, 0))

\* process.argv[2] ? parseInt(process.argv[2]) : undefined, for the
\* arguments given after the script name
CliPort(argv) ==
  IF argv # <<>> /\ argv[1] # <<>> THEN parseInt(argv[1]) ELSE JsUndefined

\* the body of startServer: server.listen(PORT); cli and argv note a call
\* from the entry point and its command line
Listen(port, cli, argv) ==
  /\ Len(listening) < MaxServers
  /\ LET PORT == Or(port, Or(EnvValue(portEnv), JsNumber(DefaultPort)))
     IN listening' = Append(listening, [cli |-> cli, argv |-> argv, arg |-> port, port |-> PORT])
  /\ UNCHANGED <<routes, reqs, nRegs, nodeEnv, portEnv, stepVars>>

\* startServer(port) called by an importing module
startServer(port) == Listen(port, FALSE, <<>>)

\* if (require.main === module) { ... startServer(port); }
Main(argv) ==
  /\ listening = <<>>
  /\ Listen(CliPort(argv), TRUE, argv)

PortArgs == {JsUndefined, JsNumber(0), JsNumber(DefaultPort), JsNumber(8080)}

Port8080 == <<"8","0","8","0">>

Argvs ==
  { <<>>, <<Port8080>>, <<<<"0">>>>, <<<<"a","b","c">>>>, <<<<"8","0","x">>>>, <<<<>>>>,
    <<<<"0","x","5","0">>>>, <<Port8080, <<"9","0">>>> }

PortEnvs == {EnvUnset, EnvSet(<<>>), EnvSet(Port8080), EnvSet(<<"5","0","0","0">>)}

InitPort ==
  /\ routes = BuiltinRoutes
  /\ reqs = <<>>
  /\ nRegs = 0
  /\ nodeEnv = EnvUnset
  /\ portEnv \in PortEnvs
  /\ listening = <<>>
  /\ StepsIdle

NextPort ==
  \/ \E port \in PortArgs : startServer(port)
  \/ \E argv \in Argvs : Main(argv)

SpecPort == InitPort /\ [][NextPort]_vars

(***************************************************************************)
(* Inputs of the router specification                                      *)
(***************************************************************************)
Header(name, value) == [name |-> name, multi |-> FALSE, list |-> <<value>>]

NoGen == [kind |-> "raw", pairs |-> <<>>, qpairs |-> <<>>, jv |-> JNull, chunks |-> <<>>]

QueryA1 == <<"?","a","=","1">>

RouterUrls ==
  {PathRoot, PathPost, PathPost \o QueryA1, PathHealth \o <<"?">>, PathForms, PathTest,
   PathNonexistent}

RouterChunks == {<<"x","C3">>, <<"C3","A9">>}

RECURSIVE SeqsUpTo(_, _)
SeqsUpTo(S, n) ==
  IF n = 0 THEN {<<>>}
  ELSE LET shorter == SeqsUpTo(S, n - 1)
       IN shorter \cup {Append(q, x) : q \in shorter, x \in S}

RouterHeaders == <<Header(HostName, LocalHost), Header(ContentTypeName, AppForm)>>

\* the requests of the router specification; the body of a POST is whatever
\* chunks arrive before the end of its stream
RouterRequests ==
  {[method |-> m, url |-> u, headers |-> RouterHeaders, remote |-> LoopbackAddr,
    gen |-> NoGen] : m \in {"GET", "POST"}, u \in RouterUrls}

\* what the tests register: doubles, and handlers of main.ts again under
\* their own method and path
Registrations ==
  { Route("POST", PathPost, "h1"), Route("GET", PathTest, "h1"), Route("GET", PathTest, "h2"),
    Route("POST", PathPost, "mirror") }

\* main.ts has been loaded; NODE_ENV and PORT are not set, no server started
Init ==
  /\ routes = BuiltinRoutes
  /\ reqs = <<>>
  /\ nRegs = 0
  /\ nodeEnv = EnvUnset
  /\ portEnv = EnvUnset
  /\ listening = <<>>
  /\ StepsIdle

Next ==
  \/ \E g \in {x \in Registrations : x.method = "GET"} : get(g.path, g.handler)
  \/ \E g \in {x \in Registrations : x.method = "POST"} : post(g.path, g.handler)
  \/ ResetRoutes
  \/ Len(reqs) < MaxReqs /\ \E r \in RouterRequests : handle(r)
  \/ \E i \in 1..Len(reqs), c \in RouterChunks :
       Len(reqs[i].received) < MaxChunks /\ OnData(i, c)
  \/ \E i \in 1..Len(reqs) : OnEnd(i)
  \/ \E i \in 1..Len(reqs), out \in {ReadOk(FormHtml), ReadFail("ENOENT")} :
       ReadFileDone(i, out)

Spec == Init /\ [][Next]_vars

(***************************************************************************)
(* Inputs of the mirror specification: what a client sends to POST /post.  *)
(* A request carries, in gen, how its body and query were produced - the   *)
(* submitted form pairs, the JSON value, the query pairs, the chunks the   *)
(* body is sent in - which the router and the handler never read.          *)
(***************************************************************************)
Pair(k, v) == [k |-> k, v |-> v]

\* encodeURIComponent-style escaping of one key or value, space as "+"
RECURSIVE Encode(_)
Encode(s) ==
  IF s = <<>> THEN <<>>
  ELSE IF Head(s) = " " THEN <<"+">> \o Encode(Tail(s))
  ELSE IF \E i \in 1..Len(PctTable) : PctTable[i][1] = Head(s)
       THEN LET e == PctTable[CHOOSE i \in 1..Len(PctTable) : PctTable[i][1] = Head(s)]
            IN <<"%", e[2], e[3]>> \o Encode(Tail(s))
  ELSE <<Head(s)>> \o Encode(Tail(s))

\* k1=v1&k2=v2... as a browser form or URLSearchParams serialises it
RECURSIVE FormEncode(_)
FormEncode(pairs) ==
  IF pairs = <<>> THEN <<>>
  ELSE Encode(Head(pairs).k) \o <<"=">> \o Encode(Head(pairs).v)
       \o (IF Len(pairs) > 1 THEN <<"&">> \o FormEncode(Tail(pairs)) ELSE <<>>)

RECURSIVE EscapeJson(_)
EscapeJson(s) ==
  IF s = <<>> THEN <<>>
  ELSE IF Head(s) \in {Quote, Backslash} THEN <<Backslash, Head(s)>> \o EscapeJson(Tail(s))
  ELSE <<Head(s)>> \o EscapeJson(Tail(s))

\* JSON.stringify(v) of the client; sp is the text put after ":" and ","
RECURSIVE Stringify(_, _), StringifyList(_, _, _)
Stringify(v, sp) ==
  CASE v.t = "null" -> LitNull
    [] v.t \in {"bool", "num"} -> v.s
    [] v.t = "str" -> <<Quote>> \o EscapeJson(v.s) \o <<Quote>>
    [] v.t = "arr" -> <<"[">> \o StringifyList(v.kids, sp, FALSE) \o <<"]">>
    [] v.t = "obj" -> <<"{">> \o StringifyList(v.kids, sp, TRUE) \o <<"}">>

StringifyList(kids, sp, isObj) ==
  IF kids = <<>> THEN <<>>
  ELSE (IF isObj
        THEN <<Quote>> \o EscapeJson(Head(kids).k) \o <<Quote, ":">> \o sp
             \o Stringify(Head(kids).v, sp)
        ELSE Stringify(Head(kids), sp))
       \o (IF Len(kids) > 1 THEN <<",">> \o sp \o StringifyList(Tail(kids), sp, isObj)
           ELSE <<>>)

KeyA == <<"a">>
KeyB == <<"b">>
Val1 == <<"1">>
ValSpecial == <<"x"," ","&","=">>
Name == <<"n","a","m","e">>
Jane == <<"J","a","n","e">>

FormPairs == {Pair(k, v) : k \in {KeyA, KeyB, Proto}, v \in {Val1, ValSpecial}}
QueryPairs == {Pair(k, v) : k \in {KeyA, Proto}, v \in {Val1, ValSpecial}}

\* custname=John+Doe&topping=bacon&topping=cheese
OrderPairs ==
  << Pair(<<"c","u","s","t","n","a","m","e">>, <<"J","o","h","n"," ","D","o","e">>),
     Pair(<<"t","o","p","p","i","n","g">>, <<"b","a","c","o","n">>),
     Pair(<<"t","o","p","p","i","n","g">>, <<"c","h","e","e","s","e">>) >>

JsonValues ==
  { JNull, JBool(LitTrue), JNum(<<"0">>), JNum(<<"4","2">>), JStr(<<>>), JStr(Jane),
    JStr(<<"a", Quote, Backslash>>), JArr(<<>>), JArr(<<JNum(<<"1">>), JStr(KeyA)>>),
    JObj(<<>>), JObj(<<Pair(Name, JStr(Jane))>>),
    JObj(<<Pair(Name, JStr(Jane)), Pair(KeyA, JArr(<<JBool(LitFalse), JNull>>))>>),
    JObj(<<Pair(Proto, JObj(<<Pair(KeyA, JNum(<<"1">>))>>))>>) }

\* texts JSON.parse rejects
MalformedJson ==
  { <<>>,
    <<"{", Quote, "i","n","v","a","l","i","d", Quote, ":", " ", "j","s","o","n", "}">>,
    <<"{">>,
    <<"{", Quote, "a", Quote, ":", "}">>,
    <<"[", "1", ",", "]">>,
    <<Quote, "a">>,
    <<"n","u","l">>,
    <<"{", Quote, "a", Quote, ":", "1", "}", "x">>,
    <<"0","1">>,
    <<"{", "'", "a", "'", ":", "1", "}">>,
    <<"{", Quote, "a", Quote, " ", "1", "}">> }

BothTypes == AppForm \o <<",", " ">> \o AppJson
UpperJson == <<"A","P","P","L","I","C","A","T","I","O","N","/","J","S","O","N">>

\* Content-Type values that contain neither media type
OtherTypes == {TextPlain, UpperJson}

ContentTypes ==
  {AppJson, AppJson \o Charset, AppForm, AppForm \o Charset, BothTypes} \cup OtherTypes

\* the header sets of the mirror requests: host, then Content-Type if sent
MirrorHeaders ==
  {<<Header(HostName, LocalHost)>>}
  \cup {<<Header(HostName, LocalHost), Header(ContentTypeName, ct)>> : ct \in ContentTypes}

\* the body bytes as the chunks the socket delivers: all at once, or cut
\* in the middle; an empty body delivers no chunk
Chunkings(body) ==
  IF body = <<>> THEN {<<>>}
  ELSE {<<body>>}
       \cup (IF Len(body) >= 2
             THEN {<<SubSeq(body, 1, Len(body) \div 2), Slice(body, Len(body) \div 2 + 1)>>}
             ELSE {})

MirrorBodies ==
  {[kind |-> "form", pairs |-> ps, qpairs |-> <<>>, jv |-> JNull, text |-> FormEncode(ps)] :
     ps \in SeqsUpTo(FormPairs, MaxPairs) \cup {OrderPairs}}
  \cup
  {[kind |-> "json", pairs |-> <<>>, qpairs |-> <<>>, jv |-> v, text |-> Stringify(v, sp)] :
     v \in JsonValues, sp \in {<<>>, <<" ">>}}
  \cup
  {[kind |-> "badjson", pairs |-> <<>>, qpairs |-> <<>>, jv |-> JNull, text |-> t] :
     t \in MalformedJson}

GenOf(b, qpairs, chunks) ==
  [kind |-> b.kind, pairs |-> b.pairs, qpairs |-> qpairs, jv |-> b.jv, chunks |-> chunks]

QueryOf(qpairs) == IF qpairs = <<>> THEN <<>> ELSE <<"?">> \o FormEncode(qpairs)

\* every body under every header set, without query; and every query
\* with one form body
MirrorRequests ==
  UNION {{[method |-> "POST", url |-> PathPost, headers |-> hs, remote |-> ra,
           gen |-> GenOf(b, <<>>, c)] :
            hs \in MirrorHeaders, ra \in {<<>>, LoopbackAddr}, c \in Chunkings(b.text)} :
         b \in MirrorBodies}
  \cup
  {[method |-> "POST", url |-> PathPost \o QueryOf(qs),
    headers |-> <<Header(HostName, LocalHost), Header(ContentTypeName, AppForm)>>,
    remote |-> LoopbackAddr,
    gen |-> [kind |-> "form", pairs |-> <<Pair(KeyA, Val1)>>, qpairs |-> qs, jv |-> JNull,
             chunks |-> <<FormEncode(<<Pair(KeyA, Val1)>>)>>]] :
     qs \in SeqsUpTo(QueryPairs, MaxPairs)}

\* header lines as a client writes them
Line(name, value) == [name |-> name, value |-> value]

MaxHeaderLines == 3

HostLine == Line(<<"H","o","s","t">>, LocalHost)
XCustom == <<"X","-","C","u","s","t","o","m">>

ExtraLines ==
  { Line(<<"C","o","n","t","e","n","t","-","T","y","p","e">>, AppForm),
    Line(XCustom, Val1), Line(XCustom, Jane),
    Line(<<"S","e","t","-","C","o","o","k","i","e">>, KeyA),
    Line(<<"S","e","t","-","C","o","o","k","i","e">>, KeyB),
    Line(Val1, KeyA),
    Line(Proto, KeyA) }

\* one form body under every list of header lines after Host
HeaderRequests ==
  {[method |-> "POST", url |-> PathPost,
    headers |-> IncomingHeaders(<<HostLine>> \o ls),
    remote |-> LoopbackAddr,
    gen |-> [kind |-> "form", pairs |-> <<Pair(KeyA, Val1)>>, qpairs |-> <<>>, jv |-> JNull,
             chunks |-> <<FormEncode(<<Pair(KeyA, Val1)>>)>>]] :
     ls \in SeqsUpTo(ExtraLines, MaxHeaderLines)}

InitMirror ==
  /\ routes = BuiltinRoutes
  /\ reqs = <<>>
  /\ nRegs = 0
  /\ nodeEnv = EnvUnset
  /\ portEnv = EnvUnset
  /\ listening = <<>>
  /\ StepsIdle

NextMirror ==
  \/ reqs = <<>> /\ \E r \in MirrorRequests \cup HeaderRequests : handle(r)
  \/ \E i \in 1..Len(reqs) :
       /\ Len(reqs[i].received) < Len(reqs[i].gen.chunks)
       /\ OnData(i, reqs[i].gen.chunks[Len(reqs[i].received) + 1])
  \/ \E i \in 1..Len(reqs) :
       Len(reqs[i].received) = Len(reqs[i].gen.chunks) /\ OnEnd(i)

SpecMirror == InitMirror /\ [][NextMirror]_vars

(***************************************************************************)
(* The GET endpoints: /, /health and /forms/post with and without query    *)
(* string, under different headers, for every value of NODE_ENV and every  *)
(* outcome of the file read.                                               *)
(***************************************************************************)
MaxGets == 2

Test == <<"t","e","s","t">>
Production == <<"p","r","o","d","u","c","t","i","o","n">>

NodeEnvs == {EnvUnset, EnvSet(<<>>), EnvSet(Test), EnvSet(Production)}

ReadOutcomes ==
  {ReadOk(FormHtml), ReadOk(<<>>), ReadFail("ENOENT"), ReadFail("EACCES"), ReadFail("EISDIR")}

GetUrls ==
  {PathRoot, PathRoot \o QueryA1, PathHealth, PathHealth \o QueryA1, PathForms}

GetHeaders ==
  { <<Header(HostName, LocalHost)>>,
    <<Header(HostName, LocalHost), Header(ContentTypeName, AppJson),
      Header(<<"a","c","c","e","p","t">>, TextPlain)>> }

GetRequests ==
  {[method |-> "GET", url |-> u, headers |-> hs, remote |-> LoopbackAddr, gen |-> NoGen] :
     u \in GetUrls, hs \in GetHeaders}

InitGet ==
  /\ routes = BuiltinRoutes
  /\ reqs = <<>>
  /\ nRegs = 0
  /\ nodeEnv \in NodeEnvs
  /\ portEnv = EnvUnset
  /\ listening = <<>>
  /\ StepsIdle

NextGet ==
  \/ Len(reqs) < MaxGets /\ \E r \in GetRequests : handle(r)
  \/ \E i \in 1..Len(reqs), out \in ReadOutcomes : ReadFileDone(i, out)

SpecGet == InitGet /\ [][NextGet]_vars

(***************************************************************************)
(* Several requests in flight: the same body, of one two-byte character    *)
(* or of three ASCII characters, arrives in one chunk or cut in two, from  *)
(* a socket with or without remote address, with health checks between.    *)
(***************************************************************************)
MaxInFlight == 2

EAcuteBytes == <<"C3", "A9">>

PairRequests ==
  {[method |-> "POST", url |-> PathPost,
    headers |-> <<Header(HostName, LocalHost), Header(ContentTypeName, TextPlain)>>,
    remote |-> ra, gen |-> [NoGen EXCEPT !.chunks = c]] :
     ra \in {<<>>, LoopbackAddr},
     c \in Chunkings(EAcuteBytes) \cup Chunkings(FormEncode(<<Pair(KeyA, Val1)>>))}
  \cup
  {[method |-> "GET", url |-> PathHealth, headers |-> <<Header(HostName, LocalHost)>>,
    remote |-> LoopbackAddr, gen |-> NoGen]}

NextPair ==
  \/ Len(reqs) < MaxInFlight /\ \E r \in PairRequests : handle(r)
  \/ \E i \in 1..Len(reqs) :
       /\ Len(reqs[i].received) < Len(reqs[i].gen.chunks)
       /\ OnData(i, reqs[i].gen.chunks[Len(reqs[i].received) + 1])
  \/ \E i \in 1..Len(reqs) :
       Len(reqs[i].received) = Len(reqs[i].gen.chunks) /\ OnEnd(i)

SpecPair == InitMirror /\ [][NextPair]_vars

(***************************************************************************)
(* Request paths around the registered ones: with a trailing slash, with   *)
(* more segments, in another letter case, with dot segments.               *)
(***************************************************************************)
Seg(word) == <<"/">> \o word

PostWord == <<"p","o","s","t">>
HealthWord == <<"h","e","a","l","t","h">>
Dot == <<".">>
DotDot == <<".", ".">>

PathUrls ==
  { PathPost, PathPost \o <<"/">>, PathPost \o Seg(KeyA),
    <<"/","P","O","S","T">>, <<"/","P","o","s","t">>,
    Seg(Dot) \o PathPost, Seg(KeyA) \o Seg(DotDot) \o PathPost, Seg(<<"%","2","e">>) \o PathPost,
    PathPost \o Seg(Dot), PathPost \o Seg(DotDot),
    PathHealth, PathHealth \o <<"/">>, PathHealth \o Seg(DotDot) \o PathPost,
    Seg(KeyA) \o <<"\\">> \o DotDot \o PathHealth,
    PathRoot, Seg(Dot), Seg(DotDot) \o PathPost \o QueryA1 }

PathRequests ==
  {[method |-> m, url |-> u,
    headers |-> <<Header(HostName, LocalHost), Header(ContentTypeName, AppForm)>>,
    remote |-> LoopbackAddr,
    gen |-> [NoGen EXCEPT !.chunks = IF m = "POST" THEN <<FormEncode(<<Pair(KeyA, Val1)>>)>>
                                     ELSE <<>>]] :
     m \in {"GET", "POST"}, u \in PathUrls}

NextPath ==
  \/ Len(reqs) < MaxInFlight /\ \E r \in PathRequests : handle(r)
  \/ \E i \in 1..Len(reqs) :
       /\ Len(reqs[i].received) < Len(reqs[i].gen.chunks)
       /\ OnData(i, reqs[i].gen.chunks[Len(reqs[i].received) + 1])
  \/ \E i \in 1..Len(reqs) :
       Len(reqs[i].received) = Len(reqs[i].gen.chunks) /\ OnEnd(i)

SpecPath == InitMirror /\ [][NextPath]_vars

(***************************************************************************)
(* The server as started by startServer, with the four routes of main.ts,  *)
(* until the process ends.  An exception that leaves Router.handle leaves  *)
(* the request listener of createServer uncaught, and main.ts installs no  *)
(* uncaughtException handler: the process exits and no event of any        *)
(* request is handled any more.  The callback of fs.readFile is eventually *)
(* called while the process runs; when the body of a request ends is up to *)
(* the client.                                                             *)
(***************************************************************************)
DoubleSlash == <<"/", "/">>

LiveRequests ==
  {[method |-> "GET", url |-> u, headers |-> <<Header(HostName, LocalHost)>>,
    remote |-> LoopbackAddr, gen |-> NoGen] :
     u \in {PathRoot, PathHealth, PathForms, PathNonexistent, DoubleSlash}}
  \cup
  {[method |-> "POST", url |-> u,
    headers |-> <<Header(HostName, LocalHost), Header(ContentTypeName, AppForm)>>,
    remote |-> LoopbackAddr,
    gen |-> [NoGen EXCEPT !.chunks = <<FormEncode(<<Pair(KeyA, Val1)>>)>>]] :
     u \in {PathPost, PathNonexistent}}

\* the process has ended on an uncaught exception
Crashed == \E i \in 1..Len(reqs) : reqs[i].pc = "threw"

ReadFileCallback ==
  /\ ~Crashed
  /\ \E i \in 1..Len(reqs), out \in {ReadOk(FormHtml), ReadFail("ENOENT")} :
       ReadFileDone(i, out)

NextLive ==
  \/ ~Crashed /\ Len(reqs) < MaxInFlight /\ \E r \in LiveRequests : handle(r)
  \/ \E i \in 1..Len(reqs) :
       /\ ~Crashed
       /\ Len(reqs[i].received) < Len(reqs[i].gen.chunks)
       /\ OnData(i, reqs[i].gen.chunks[Len(reqs[i].received) + 1])
  \/ \E i \in 1..Len(reqs) :
       ~Crashed /\ Len(reqs[i].received) = Len(reqs[i].gen.chunks) /\ OnEnd(i)
  \/ ReadFileCallback

SpecLive == InitMirror /\ [][NextLive]_vars /\ WF_vars(ReadFileCallback)

(***************************************************************************)
(* Vocabulary of the properties                                            *)
(***************************************************************************)
\* a step of Router.handle: one more request has been received
HandleStep == Len(reqs') = Len(reqs) + 1

\* the request target up to its query string or fragment
PathOnly(url) ==
  LET i == IndexOfAny(url, {"?", "#"})
      p == IF i = 0 THEN url ELSE SubSeq(url, 1, i - 1)
  IN IF p = <<>> THEN <<"/">> ELSE p

Matches(rt, method, pathname) == rt.method = method /\ rt.path = pathname

RECURSIVE ConcatChunks(_)
ConcatChunks(chunks) ==
  IF chunks = <<>> THEN <<>> ELSE chunkToString(Head(chunks)) \o ConcatChunks(Tail(chunks))

IsNotFound(q) ==
  /\ q.res.status = 404 /\ q.res.ctype = TextPlain
  /\ q.res.kind = "text" /\ q.res.text = NotFound
  /\ q.res.heads = 1 /\ q.res.ends = 1
  /\ q.calls = <<>> /\ q.pc = "done"

\* C1: a request whose (method, pathname) matches no entry of the route
\* table - a path registered under the other method and an emptied table
\* included - gets status 404, Content-Type text/plain, the body
\* "Not Found", ended once, and no handler is invoked for it, then or later.
C1_NotFound ==
  /\ [][HandleStep =>
          LET q == reqs'[Len(reqs')]
          IN (\A j \in 1..Len(routes) : ~Matches(routes[j], q.method, PathOnly(q.url)))
             => IsNotFound(q) /\ q.route = 0]_vars
  /\ [](\A i \in 1..Len(reqs) : reqs[i].route = 0 => IsNotFound(reqs[i]))

C1_Witness ==
  \E i \in 1..Len(reqs) :
    /\ reqs[i].method = "GET" /\ reqs[i].url = PathPost /\ IsNotFound(reqs[i])
    /\ \E j \in 1..Len(routes) : routes[j] = Route("POST", PathPost, "mirror")

\* C2: for a POST request that matched a route the handler is invoked at
\* most once and exactly once when the stream has ended, never before the
\* end, and its body argument is the concatenation of the data chunks (each
\* converted by toString) in arrival order, the empty string without chunk.
C2_PostBuffering ==
  \A i \in 1..Len(reqs) :
    (reqs[i].method = "POST" /\ reqs[i].route # 0) =>
      /\ Len(reqs[i].calls) <= 1
      /\ (reqs[i].calls # <<>>) <=> reqs[i].ended
      /\ reqs[i].calls # <<>> =>
           /\ reqs[i].calls[1].ended
           /\ reqs[i].calls[1].withBody
           /\ reqs[i].calls[1].body = ConcatChunks(reqs[i].received)

C2_Witness ==
  \E i \in 1..Len(reqs) :
    /\ reqs[i].method = "POST" /\ reqs[i].route # 0 /\ reqs[i].calls # <<>>
    /\ Len(reqs[i].received) = 2 /\ reqs[i].received[1] # reqs[i].received[2]
    /\ reqs[i].calls[1].body = ConcatChunks(reqs[i].received)

\* C3: when several entries have the request's (method, path), Router.handle
\* dispatches to the one with the lowest index, and every call made for
\* the request goes to that entry's handler.
C3_FirstWins ==
  /\ [][HandleStep =>
          LET q == reqs'[Len(reqs')]
              hit == {j \in 1..Len(routes) : Matches(routes[j], q.method, PathOnly(q.url))}
          IN hit # {} =>
               /\ q.route \in hit
               /\ \A j \in hit : q.route <= j
               /\ q.handler = routes[q.route].handler]_vars
  /\ [](\A i \in 1..Len(reqs) : \A c \in 1..Len(reqs[i].calls) :
          reqs[i].calls[c].handler = reqs[i].handler)

C3_Witness ==
  \E i \in 1..Len(reqs) : \E a, b \in 1..Len(routes) :
    /\ a < b
    /\ Matches(routes[a], reqs[i].method, PathOnly(reqs[i].url))
    /\ Matches(routes[b], reqs[i].method, PathOnly(reqs[i].url))
    /\ routes[a].handler # routes[b].handler
    /\ reqs[i].route = a
    /\ reqs[i].calls # <<>> /\ reqs[i].calls[1].handler = routes[a].handler

\* the request target without its query string
BeforeQuery(url) ==
  LET i == IndexOfAny(url, {"?"}) IN IF i = 0 THEN url ELSE SubSeq(url, 1, i - 1)

\* C4: a request for <path>?<query> is dispatched to the route that the
\* same request for <path> is dispatched to.
C4_QueryIgnored ==
  [][HandleStep =>
       LET q == reqs'[Len(reqs')]
           bare == FindRoute(routes, q.method,
                             ParseUrl(BeforeQuery(q.url), HostOf(q.headers)).pathname)
       IN /\ q.route = bare
          /\ bare # 0 => q.handler = routes[bare].handler]_vars

C4_Witness ==
  \E i \in 1..Len(reqs) :
    /\ reqs[i].url = PathPost \o QueryA1 /\ reqs[i].handler = "mirror"
    /\ reqs[i].calls # <<>> /\ reqs[i].res.status = 200

(***************************************************************************)
(* Properties of the mirror endpoint                                       *)
(***************************************************************************)
\* the requests the mirror handler has answered
MirrorDone == {i \in 1..Len(reqs) : reqs[i].handler = "mirror" /\ reqs[i].pc = "done"}

ContentTypeOf(q) == HeaderOrEmpty(q.headers, ContentTypeName)

KeysOf(pairs) == {pairs[i].k : i \in 1..Len(pairs)}

\* the values submitted for key k, in submission order
RECURSIVE ValuesOf(_, _)
ValuesOf(pairs, k) ==
  IF pairs = <<>> THEN <<>>
  ELSE (IF Head(pairs).k = k THEN <<Head(pairs).v>> ELSE <<>>) \o ValuesOf(Tail(pairs), k)

LastValueOf(pairs, k) == LET vs == ValuesOf(pairs, k) IN vs[Len(vs)]

\* C5: under a Content-Type that contains application/x-www-form-urlencoded
\* and not application/json, form maps each submitted key to the list of
\* all values submitted for it, in submission order, and json is null.
C5_FormAllValues ==
  \A i \in MirrorDone :
    LET q == reqs[i]
        form == q.res.payload.form
    IN (/\ q.gen.kind = "form"
        /\ Includes(ContentTypeOf(q), AppForm)
        /\ ~Includes(ContentTypeOf(q), AppJson)) =>
         /\ ObjKeys(form) = KeysOf(q.gen.pairs)
         /\ \A k \in KeysOf(q.gen.pairs) :
              ObjHas(form, k) /\ ObjGet(form, k) = ValuesOf(q.gen.pairs, k)
         /\ q.res.payload.json = JNull

\* C6: args holds exactly one string per distinct key of the query string,
\* the value of the key's last occurrence; a map encoded as a query string
\* is read back as the same map.
C6_ArgsLastWins ==
  \A i \in MirrorDone :
    LET q == reqs[i]
        args == q.res.payload.args
        qs == q.gen.qpairs
    IN /\ ObjKeys(args) = KeysOf(qs)
       /\ \A k \in KeysOf(qs) :
            /\ Cardinality({n \in 1..Len(args) : args[n].k = k}) = 1
            /\ ObjGet(args, k) = LastValueOf(qs, k)
       /\ Cardinality(KeysOf(qs)) = Len(qs) => args = qs

C6_Witness ==
  \E i \in MirrorDone :
    LET qs == reqs[i].gen.qpairs
    IN /\ Len(qs) >= 2 /\ qs[1].k = qs[2].k /\ qs[1].v # qs[2].v
       /\ ObjGet(reqs[i].res.payload.args, qs[1].k) = qs[Len(qs)].v

\* C7: under a Content-Type that contains application/json, a body that is
\* valid JSON gives json = the parsed value and form = {}; any other body,
\* the empty one included, still gives status 200, json = null and data =
\* the raw body: once the stream has ended the response has been written.
C7_JsonBody ==
  \A i \in 1..Len(reqs) :
    LET q == reqs[i]
    IN (Includes(ContentTypeOf(q), AppJson) /\ q.ended) =>
         /\ q.pc = "done"
         /\ q.res.status = 200 /\ q.res.heads = 1 /\ q.res.ends = 1
         /\ q.res.kind = "json"
         /\ q.gen.kind = "json" =>
              q.res.payload.json = q.gen.jv /\ q.res.payload.form = <<>>
         /\ q.gen.kind # "json" =>
              /\ q.res.payload.json = JNull
              /\ q.res.payload.data = ConcatChunks(q.received)

C7_Witness ==
  \E i \in MirrorDone :
    /\ ContentTypeOf(reqs[i]) = AppJson
    /\ reqs[i].gen.kind = "badjson"
    /\ Len(reqs[i].body) > 10
    /\ reqs[i].res.status = 200
    /\ reqs[i].res.payload.json = JNull
    /\ reqs[i].res.payload.data = reqs[i].body

\* C8: without Content-Type, or with one that contains neither media type,
\* form is {} and json is null whatever the body looks like, and data is
\* the body.
C8_OtherTypes ==
  \A i \in MirrorDone :
    LET q == reqs[i]
    IN (~HasHeader(q.headers, ContentTypeName) \/ ContentTypeOf(q) \in OtherTypes) =>
         /\ q.res.payload.form = <<>>
         /\ q.res.payload.json = JNull
         /\ q.res.payload.data = ConcatChunks(q.received)

C8_Witness ==
  \E i \in MirrorDone :
    /\ ContentTypeOf(reqs[i]) = TextPlain
    /\ reqs[i].gen.kind = "form" /\ Len(reqs[i].gen.pairs) = 2
    /\ reqs[i].res.payload.form = <<>>
    /\ reqs[i].res.payload.data = reqs[i].body

\* C9: data is the buffered body, character for character, under every
\* content type and whatever the outcome of parsing.
C9_DataIsBody ==
  \A i \in MirrorDone :
    /\ reqs[i].res.payload.data = reqs[i].body
    /\ reqs[i].res.payload.data = ConcatChunks(reqs[i].received)

C9_Witness ==
  \E i \in MirrorDone :
    /\ ContentTypeOf(reqs[i]) = AppForm
    /\ reqs[i].res.payload.form # <<>>
    /\ Decode(reqs[i].body) # reqs[i].body
    /\ reqs[i].res.payload.data = reqs[i].body

FormPopulated(q) == q.res.payload.form # <<>>
JsonPopulated(q) == q.res.payload.json # JNull

\* C10 as stated: exactly one of form and json is populated.
C10_ExactlyOne ==
  \A i \in MirrorDone : FormPopulated(reqs[i]) # JsonPopulated(reqs[i])

\* C10, amended: at most one of form and json is populated, and which one
\* can be is decided by the Content-Type: json only if it contains
\* application/json, form only if it contains
\* application/x-www-form-urlencoded.
C10_AtMostOne ==
  \A i \in MirrorDone :
    /\ ~(FormPopulated(reqs[i]) /\ JsonPopulated(reqs[i]))
    /\ FormPopulated(reqs[i]) => Includes(ContentTypeOf(reqs[i]), AppForm)
    /\ JsonPopulated(reqs[i]) => Includes(ContentTypeOf(reqs[i]), AppJson)

C10_Witness ==
  \E i \in MirrorDone :
    /\ ContentTypeOf(reqs[i]) = BothTypes
    /\ JsonPopulated(reqs[i])
    /\ ~FormPopulated(reqs[i])
    /\ parseForm(reqs[i].body) # <<>>

\* C11: the headers map of the response has, for each property of
\* req.headers and in the same order, one key - the header name with its
\* first character upper-cased and the rest unchanged - whose value is a
\* list: the one-element list of a single value, the array of a
\* multi-valued header as it is; it has no other key.
C11_HeadersMap ==
  \A i \in MirrorDone :
    LET hs == reqs[i].headers
        out == reqs[i].res.payload.headers
    IN /\ Len(out) = Len(hs)
       /\ \A n \in 1..Len(hs) :
            /\ Len(out[n].k) = Len(hs[n].name)
            /\ out[n].k[1] = toUpperCase(hs[n].name[1])
            /\ Tail(out[n].k) = Tail(hs[n].name)
            /\ out[n].v = hs[n].list
            /\ hs[n].multi \/ Len(out[n].v) = 1

C11_Witness ==
  \E i \in MirrorDone :
    LET out == reqs[i].res.payload.headers
    IN /\ Len(out) = 3
       /\ out[1].k = Val1
       /\ out[2].k = <<"H","o","s","t">>
       /\ out[3].k = <<"S","e","t","-","c","o","o","k","i","e">>
       /\ out[3].v = <<KeyB, KeyA>>

MirrorFields == {"args", "headers", "method", "origin", "url", "data", "files", "form", "json"}

\* C12: once the body stream of a request dispatched to the mirror handler
\* has ended, the response is written: status 200, Content-Type
\* application/json, written and ended once, a payload with exactly the
\* nine fields, files = {}, method = the request method, origin = the
\* remote address of the socket, "unknown" when it has none.
C12_MirrorAlways200 ==
  \A i \in 1..Len(reqs) :
    LET q == reqs[i]
    IN (q.handler = "mirror" /\ q.ended) =>
         /\ q.pc = "done"
         /\ q.res.status = 200 /\ q.res.ctype = AppJson
         /\ q.res.kind = "json" /\ q.res.heads = 1 /\ q.res.ends = 1
         /\ DOMAIN q.res.payload = MirrorFields
         /\ q.res.payload.files = <<>>
         /\ q.res.payload.method = q.method
         /\ q.remote # <<>> => q.res.payload.origin = q.remote
         /\ q.remote = <<>> => q.res.payload.origin = Unknown

C12_Witness ==
  \E i \in MirrorDone :
    /\ reqs[i].remote = <<>>
    /\ reqs[i].res.payload.origin = Unknown
    /\ reqs[i].gen.kind = "badjson"
    /\ ContentTypeOf(reqs[i]) = AppForm \o Charset
    /\ reqs[i].res.status = 200

\* the bytes of a body, whatever the chunks they arrived in
RECURSIVE BytesOf(_)
BytesOf(chunks) == IF chunks = <<>> THEN <<>> ELSE Head(chunks) \o BytesOf(Tail(chunks))

WithoutOrigin(payload) == [payload EXCEPT !.origin = <<>>]

\* C13 as stated: two requests answered by the mirror handler that have the
\* same URL, the same headers and the same body bytes have the same
\* response in every field but origin, whatever was handled before or
\* between them.
C13_Stateless ==
  \A i, j \in MirrorDone :
    (/\ reqs[i].url = reqs[j].url
     /\ reqs[i].headers = reqs[j].headers
     /\ BytesOf(reqs[i].received) = BytesOf(reqs[j].received)) =>
      /\ reqs[i].res.status = reqs[j].res.status
      /\ WithoutOrigin(reqs[i].res.payload) = WithoutOrigin(reqs[j].res.payload)

\* the same, for two requests whose bodies arrived in the same chunks
C13_SameChunks ==
  \A i, j \in MirrorDone :
    (/\ reqs[i].url = reqs[j].url
     /\ reqs[i].headers = reqs[j].headers
     /\ reqs[i].received = reqs[j].received) =>
      /\ reqs[i].res.status = reqs[j].res.status
      /\ WithoutOrigin(reqs[i].res.payload) = WithoutOrigin(reqs[j].res.payload)

\* the request with its Content-Type value replaced
WithContentType(q, ct) ==
  [q EXCEPT !.headers =
     [n \in 1..Len(q.headers) |->
        IF q.headers[n].name = ContentTypeName THEN Header(ContentTypeName, ct)
        ELSE q.headers[n]]]

\* C14: a request whose Content-Type is application/json or
\* application/x-www-form-urlencoded followed by "; charset=utf-8" gets the
\* form, json and data that the same request with the bare media type
\* gets: the JSON branch (form = {}) for the first, the form branch
\* (json = null) for the second.
C14_ParametersIgnored ==
  \A i \in MirrorDone : \A bare \in {AppJson, AppForm} :
    ContentTypeOf(reqs[i]) = bare \o Charset =>
      LET like == MirrorResponse(WithContentType(reqs[i], bare), reqs[i].body)
          got == reqs[i].res.payload
      IN /\ got.form = like.form /\ got.json = like.json /\ got.data = like.data
         /\ bare = AppJson /\ reqs[i].gen.kind = "json" =>
              got.json = reqs[i].gen.jv /\ got.form = <<>>
         /\ bare = AppForm /\ reqs[i].gen.kind = "form" /\ reqs[i].gen.pairs # <<>>
              /\ Proto \notin KeysOf(reqs[i].gen.pairs) =>
              got.form # <<>> /\ got.json = JNull

C14_Witness ==
  \E i \in MirrorDone :
    /\ ContentTypeOf(reqs[i]) = AppJson \o Charset
    /\ reqs[i].res.payload.json.t = "obj"
    /\ reqs[i].res.payload.json.kids # <<>>
    /\ reqs[i].res.payload.form = <<>>

\* the requests dispatched to handler h
HandledBy(h) == {i \in 1..Len(reqs) : reqs[i].handler = h}

\* C15: a request dispatched to the /forms/post handler has nothing written
\* while the file is being read, and then exactly one of two responses,
\* written and ended once: 200 text/html with the file's contents when the
\* read gave no error, 404 text/plain "File not found" when it gave an
\* error, whichever error it is.
C15_FormsTwoOutcomes ==
  \A i \in HandledBy("formsPost") :
    LET q == reqs[i]
    IN /\ q.pc \in {"reading", "done"}
       /\ q.pc = "reading" => q.res.heads = 0 /\ q.res.ends = 0 /\ q.read = NoRead
       /\ q.pc = "done" =>
            /\ q.res.heads = 1 /\ q.res.ends = 1 /\ q.res.kind = "text"
            /\ q.res.status \in {200, 404}
            /\ q.read.err = "null" =>
                 q.res.status = 200 /\ q.res.ctype = TextHtml /\ q.res.text = q.read.data
            /\ q.read.err # "null" =>
                 q.res.status = 404 /\ q.res.ctype = TextPlain /\ q.res.text = FileNotFound

C15_Witness ==
  \E i, j \in HandledBy("formsPost") :
    /\ reqs[i].read.err = "EACCES" /\ reqs[i].res.status = 404
    /\ reqs[j].read = ReadOk(FormHtml) /\ reqs[j].res.status = 200
    /\ reqs[j].res.text = FormHtml

HealthFields == {"status", "timestamp", "uptime", "environment"}

\* C16: every GET /health is answered at once with status 200 and
\* Content-Type application/json, written and ended once, and a record of
\* four fields: status "healthy", a natural number as uptime, a timestamp
\* string, and as environment the value of NODE_ENV when it is set and not
\* empty, "development" when it is unset or empty.
C16_HealthAlways200 ==
  \A i \in 1..Len(reqs) :
    LET q == reqs[i]
        h == q.res.payload
    IN (q.method = "GET" /\ PathOnly(q.url) = PathHealth) =>
         /\ q.handler = "health" /\ q.pc = "done"
         /\ q.res.status = 200 /\ q.res.ctype = AppJson
         /\ q.res.kind = "json" /\ q.res.heads = 1 /\ q.res.ends = 1
         /\ DOMAIN h = HealthFields
         /\ h.status = Healthy
         /\ h.uptime \in Nat
         /\ DOMAIN h.timestamp = 1..Len(h.timestamp) /\ h.timestamp # <<>>
         /\ (nodeEnv.set /\ nodeEnv.value # <<>>) => h.environment = nodeEnv.value
         /\ (~nodeEnv.set \/ nodeEnv.value = <<>>) => h.environment = Development

C16_Witness ==
  \E i, j \in HandledBy("health") :
    /\ nodeEnv = EnvSet(<<>>)
    /\ reqs[i].res.payload.environment = Development
    /\ reqs[i].res.payload.uptime = 0
    /\ reqs[j].res.payload.uptime > 0
    /\ reqs[j].url = PathHealth \o QueryA1

\* C17: every GET / is answered at once with status 200, Content-Type
\* text/html and the body "Hello World!", written and ended once, whatever
\* its query string and its headers.
C17_RootHello ==
  \A i \in 1..Len(reqs) :
    LET q == reqs[i]
    IN (q.method = "GET" /\ PathOnly(q.url) = PathRoot) =>
         /\ q.handler = "root" /\ q.pc = "done"
         /\ q.res.status = 200 /\ q.res.ctype = TextHtml
         /\ q.res.kind = "text" /\ q.res.text = HelloWorld
         /\ q.res.heads = 1 /\ q.res.ends = 1

C17_Witness ==
  \E i, j \in HandledBy("root") :
    /\ reqs[i].url = PathRoot \o QueryA1
    /\ ContentTypeOf(reqs[i]) = AppJson
    /\ reqs[j].url = PathRoot
    /\ ~HasHeader(reqs[j].headers, ContentTypeName)
    /\ reqs[i].res = reqs[j].res
    /\ reqs[i].res.text = HelloWorld

\* C18: a call of router.get or router.post makes the route list one entry
\* longer, leaves the entries it had where they were, and puts at the end
\* the entry made of "GET" or "POST" respectively, the path and the
\* handler of the call, whether or not such an entry is already there.
C18_AppendOne ==
  [][/\ nRegs' # nRegs =>
          /\ Len(routes') = Len(routes) + 1
          /\ SubSeq(routes', 1, Len(routes)) = routes
          /\ routes'[Len(routes')] \in Registrations
     /\ \A g \in Registrations :
          /\ (g.method = "GET" /\ get(g.path, g.handler)) =>
               routes'[Len(routes')] = [method |-> "GET", path |-> g.path, handler |-> g.handler]
          /\ (g.method = "POST" /\ post(g.path, g.handler)) =>
               routes'[Len(routes')] = [method |-> "POST", path |-> g.path, handler |-> g.handler]
    ]_vars

C18_Witness ==
  /\ nRegs = 1
  /\ Len(routes) = Len(BuiltinRoutes) + 1
  /\ routes[Len(routes)] = routes[2]
  /\ SubSeq(routes, 1, Len(BuiltinRoutes)) = BuiltinRoutes

\* the path of the request target as the client wrote it
RawPath(q) == BeforeQuery(q.url)

\* the segments of a path that starts with "/", cut at "/" only
RawSegments(path) == SplitAny(Tail(path), {"/"})

\* a path the URL parser leaves as it is: no "." or ".." segment, plain or
\* written with %2e, and no backslash
IsPlainPath(path) ==
  /\ \A n \in 1..Len(path) : path[n] # "\\"
  /\ \A n \in 1..Len(RawSegments(path)) :
       Undot(RawSegments(path)[n]) \notin {Dot, DotDot}

\* C19 as stated: a request whose path differs in any way from the path of
\* a route is not dispatched to that route.
C19_RawPathExact ==
  \A i \in 1..Len(reqs) :
    reqs[i].route # 0 => routes[reqs[i].route].path = RawPath(reqs[i])

\* C19, amended: a request is dispatched to a route only if the route's path
\* is, character for character, the pathname of the request, which is its
\* path with the "." and ".." segments resolved; a request whose pathname
\* is the path of no route of its method gets the 404 response.  So a path
\* without dot segment is dispatched only if it is itself the registered path
\* - a trailing slash, a further segment or another letter case give 404 -
\* and a path with dot segments is dispatched to the route of the path it
\* resolves to.
C19_PathnameExact ==
  \A i \in 1..Len(reqs) :
    LET q == reqs[i]
        pathname == ParseUrl(q.url, HostOf(q.headers)).pathname
        hit == {j \in 1..Len(routes) : Matches(routes[j], q.method, pathname)}
    IN /\ q.route # 0 => routes[q.route].path = pathname /\ q.route \in hit
       /\ hit = {} => IsNotFound(q)
       /\ IsPlainPath(RawPath(q)) =>
            /\ pathname = RawPath(q)
            /\ q.route # 0 => routes[q.route].path = RawPath(q)
            /\ (\A j \in 1..Len(routes) : ~Matches(routes[j], q.method, RawPath(q)))
                 => IsNotFound(q)
       /\ q.method = "POST" /\ RawPath(q) \in {Seg(Dot) \o PathPost,
                                                 Seg(KeyA) \o Seg(DotDot) \o PathPost}
            => q.handler = "mirror"

C19_Witness ==
  \E i, j \in 1..Len(reqs) :
    /\ reqs[i].method = "POST" /\ RawPath(reqs[i]) = PathPost \o <<"/">>
    /\ IsNotFound(reqs[i])
    /\ reqs[j].method = "POST" /\ RawPath(reqs[j]) = Seg(KeyA) \o Seg(DotDot) \o PathPost
    /\ reqs[j].handler = "mirror" /\ reqs[j].pc = "done" /\ reqs[j].res.status = 200

\* a port argument that was given: a number
Given(v) == v.t = "number"

\* PORT is set: it has a value that is not empty
PortIsSet == portEnv.set /\ portEnv.value # <<>>

\* C20 as stated: every server listens on the port argument when one is
\* given - from the entry point, the number read from the first
\* command-line argument - whatever PORT is; otherwise on the value of
\* PORT when it is set; otherwise on 3000.
C20_Precedence ==
  \A n \in 1..Len(listening) :
    LET l == listening[n]
    IN /\ Given(l.arg) => l.port = l.arg
       /\ (~Given(l.arg) /\ PortIsSet) => l.port = JsString(portEnv.value)
       /\ (~Given(l.arg) /\ ~PortIsSet) => l.port = JsNumber(DefaultPort)

\* what does hold: the same precedence with a port argument of 0 counted
\* as not given
C20_TruthyPrecedence ==
  \A n \in 1..Len(listening) :
    LET l == listening[n]
    IN /\ Truthy(l.arg) => l.port = l.arg
       /\ (~Truthy(l.arg) /\ PortIsSet) => l.port = JsString(portEnv.value)
       /\ (~Truthy(l.arg) /\ ~PortIsSet) => l.port = JsNumber(DefaultPort)

\* the step ran on a page that setupBrowser had created
Ran(step) == lastStep.step = step /\ page # "null"

\* the calls of the last step with the given name
CallsOf(op) == {k \in 1..Len(lastStep.calls) : lastStep.calls[k].op = op}

\* an argument of the form env:NAME and the NAME it refers to
IsReference(url) == startsWith(url, EnvColon)
ReferenceName(url) == SubSeq(url, Len(EnvColon) + 1, Len(url))

Candidates ==
  IF lastStep.step = "enterTextIntoField"
  THEN FieldSelectors(lastStep.args[2])
  ELSE ButtonSelectors(lastStep.args[1])

IsProbe(c) == c.op = "isVisible"
IsAct(c) == c.op \in {"fill", "click"}
Succeeded(c) == IsAct(c) /\ c.result = "ok"

\* C30 as stated, a fill or click that throws being read as a skipped
\* selector: the candidates are probed in list order; every fill or click
\* is made on a selector that was just found visible; no fill or click
\* follows one that succeeded, so the action is performed at most once and
\* on the first selector it can be performed on; the step throws only when
\* all candidates were tried and no fill or click succeeded, and its error
\* names the field or button.
C30_ActOnce ==
  (Ran("enterTextIntoField") \/ Ran("clickButton")) =>
    LET calls == lastStep.calls
        probes == SelectSeq(calls, IsProbe)
        done == SelectSeq(calls, Succeeded)
    IN /\ Len(probes) <= Len(Candidates)
       /\ \A k \in 1..Len(probes) : probes[k].target = Candidates[k]
       /\ \A k \in 1..Len(calls) :
            IsAct(calls[k]) =>
              \E j \in 1..(k - 1) :
                /\ IsProbe(calls[j]) /\ calls[j].result = "true"
                /\ calls[j].target = calls[k].target
                /\ \A n \in (j + 1)..(k - 1) : ~IsProbe(calls[n])
       /\ Len(done) <= 1
       /\ lastStep.error.thrown =>
            /\ Len(probes) = Len(Candidates)
            /\ done = <<>>
            /\ lastStep.error.names = lastStep.args[Len(lastStep.args)]

\* what does hold: the same for enterTextIntoField alone, and for
\* clickButton as long as no waitForLoadState after a click throws
C30_ActOnceUnlessWaitThrows ==
  (/\ Ran("enterTextIntoField") \/ Ran("clickButton")
   /\ \A k \in CallsOf("waitForLoadState") : lastStep.calls[k].result = "ok") =>
    LET calls == lastStep.calls
        probes == SelectSeq(calls, IsProbe)
        done == SelectSeq(calls, Succeeded)
    IN /\ \A k \in 1..Len(probes) : probes[k].target = Candidates[k]
       /\ Len(done) <= 1
       /\ lastStep.error.thrown <=> (Len(probes) = Len(Candidates) /\ done = <<>>)

\* the requests dispatched to a route, by method
MatchedGets(rs) == {i \in 1..Len(rs) : rs[i].route # 0 /\ rs[i].method # "POST"}
MatchedPosts(rs) == {i \in 1..Len(rs) : rs[i].route # 0 /\ rs[i].method = "POST"}

\* C22: a matched GET request has its handler called inside Router.handle,
\* once, with the request and response only and with no body listener
\* registered, and the handler is never called again for it; a matched POST
\* request leaves Router.handle with its handler not called, and the
\* handler is called once, with the body, by the end event.
C22_GetSynchronous ==
  [][/\ HandleStep =>
          LET q == reqs'[Len(reqs')]
          IN /\ q.route # 0 => q.handler = routes[q.route].handler
             /\ (q.route # 0 /\ q.method # "POST") =>
                  /\ q.calls = <<[handler |-> q.handler, withBody |-> FALSE,
                                  body |-> <<>>, ended |-> FALSE]>>
                  /\ q.pc # "buffering"
             /\ (q.route # 0 /\ q.method = "POST") =>
                  /\ q.calls = <<>>
                  /\ q.pc = "buffering"
     /\ \A i \in MatchedGets(reqs') :
          /\ Len(reqs'[i].calls) = 1
          /\ reqs'[i].received = <<>> /\ ~reqs'[i].ended
     /\ \A i \in MatchedPosts(reqs') :
          /\ Len(reqs'[i].calls) <= 1
          /\ reqs'[i].calls # <<>> <=> reqs'[i].ended
          /\ \A k \in 1..Len(reqs'[i].calls) :
               /\ reqs'[i].calls[k].ended /\ reqs'[i].calls[k].withBody
               /\ reqs'[i].calls[k].handler = reqs'[i].handler]_vars

C22_Witness ==
  \E i, j \in 1..Len(reqs) :
    /\ i \in MatchedGets(reqs) /\ reqs[i].handler = "health" /\ reqs[i].res.ends = 1
    /\ Len(reqs[i].calls) = 1 /\ ~reqs[i].calls[1].withBody
    /\ j \in MatchedPosts(reqs) /\ reqs[j].pc = "buffering" /\ reqs[j].calls = <<>>

\* a matched POST request whose body stream has not signalled end
Stalled(q) == q.route # 0 /\ q.method = "POST" /\ ~q.ended

IsPrefix(a, b) == Len(a) <= Len(b) /\ SubSeq(b, 1, Len(a)) = a

\* C24: with several POST requests in flight and their data and end
\* events interleaved in any order, the body of each request is at every
\* moment the concatenation of the chunks of that request that have
\* arrived, in order; its handler is called with the concatenation of all
\* its chunks; and the response of a request is written by its own handler
\* only: untouched until its own end event, and then built from its own
\* body and its own socket.
C24_OwnChunks ==
  \A i \in MatchedPosts(reqs) :
    LET q == reqs[i]
    IN /\ IsPrefix(q.received, q.gen.chunks)
       /\ q.body = ConcatChunks(q.received)
       /\ ~q.ended => q.res = NewResponse /\ q.calls = <<>>
       /\ q.ended =>
            /\ q.received = q.gen.chunks
            /\ Len(q.calls) = 1
            /\ q.calls[1].body = ConcatChunks(q.gen.chunks)
            /\ q.res.ends = 1
            /\ q.res.payload.data = ConcatChunks(q.gen.chunks)
            /\ q.res.payload.origin = IF q.remote = <<>> THEN Unknown ELSE q.remote

C24_Witness ==
  \E i, j \in MatchedPosts(reqs) :
    /\ i < j
    /\ Len(reqs[i].gen.chunks) = 2 /\ Len(reqs[j].gen.chunks) = 2
    /\ ConcatChunks(reqs[i].gen.chunks) # ConcatChunks(reqs[j].gen.chunks)
    /\ reqs[i].remote # reqs[j].remote
    /\ reqs[j].ended /\ reqs[j].res.ends = 1
    /\ Len(reqs[i].received) = 1 /\ ~reqs[i].ended

\* a step of a request: its arrival in Router.handle, a data or end event
\* of its body, the callback of its file read
RequestStep == reqs' # reqs

\* C25: no step of any request - Router.handle, the body events, the
\* handler that runs in them, the file-read callback - changes the route
\* table: after it the list of routes is what it was before, in content
\* and in order, so that the table is always what the registration calls
\* (and the reset between tests) have made it.
C25_RoutesFrame ==
  [][RequestStep => routes' = routes /\ nRegs' = nRegs]_vars

C25_Witness ==
  /\ nRegs = 1
  /\ routes = Append(BuiltinRoutes, Route("GET", PathTest, "h1"))
  /\ \E i \in 1..Len(reqs) :
       /\ reqs[i].route = Len(routes) /\ reqs[i].method = "GET"
       /\ Len(reqs[i].calls) = 1 /\ reqs[i].pc = "done"

\* C26: for every request the head of the response is written at most once
\* and the response is ended at most once, at every moment; the end never
\* comes without the head, and a response that has been ended belongs to
\* a request that is done.
C26_WrittenOnce ==
  \A i \in 1..Len(reqs) :
    /\ reqs[i].res.heads <= 1
    /\ reqs[i].res.ends <= 1
    /\ reqs[i].res.ends <= reqs[i].res.heads
    /\ reqs[i].res.ends = 1 => reqs[i].pc = "done"

C26_Witness ==
  \E i \in 1..Len(reqs) :
    /\ reqs[i].handler = "formsPost" /\ reqs[i].read = ReadFail("ENOENT")
    /\ reqs[i].res.status = 404
    /\ reqs[i].res.heads = 1 /\ reqs[i].res.ends = 1

UnmatchedPosts(rs) == {i \in 1..Len(rs) : rs[i].route = 0 /\ rs[i].method = "POST"}

\* C28: a POST request to a path with no POST route leaves Router.handle
\* answered with the 404 response, before any chunk of its body has been
\* read, and no chunk and no end of its body is ever read afterwards; only
\* requests dispatched to a POST route are ever buffered.
C28_UnmatchedPostImmediate ==
  [][/\ HandleStep =>
          LET q == reqs'[Len(reqs')]
          IN (q.method = "POST" /\ q.route = 0) =>
               IsNotFound(q) /\ q.received = <<>> /\ ~q.ended
     /\ \A i \in UnmatchedPosts(reqs') :
          /\ IsNotFound(reqs'[i])
          /\ reqs'[i].received = <<>> /\ reqs'[i].body = <<>> /\ ~reqs'[i].ended
     /\ \A i \in 1..Len(reqs') :
          reqs'[i].pc = "buffering" \/ reqs'[i].received # <<>> \/ reqs'[i].ended
            => i \in MatchedPosts(reqs')]_vars

C28_Witness ==
  \E i \in UnmatchedPosts(reqs) :
    /\ RawPath(reqs[i]) = PathPost \o <<"/">>
    /\ reqs[i].gen.chunks # <<>> /\ reqs[i].received = <<>>
    /\ IsNotFound(reqs[i])
    /\ \E j \in MatchedPosts(reqs) : j > i /\ reqs[j].ended

\* C29: in every mirror response json is non-null only if the Content-Type
\* contains application/json, and form is non-empty only if it contains
\* application/x-www-form-urlencoded and does not contain application/json;
\* so the two are never both populated, and a Content-Type that contains
\* both media types takes the JSON branch: form is empty whatever the body
\* is, also when the body is not valid JSON and json is null.
C29_JsonBranchWins ==
  \A i \in MirrorDone :
    LET q == reqs[i]
        hasJson == Includes(ContentTypeOf(q), AppJson)
        hasForm == Includes(ContentTypeOf(q), AppForm)
    IN /\ JsonPopulated(q) => hasJson
       /\ FormPopulated(q) => hasForm /\ ~hasJson
       /\ ~(JsonPopulated(q) /\ FormPopulated(q))
       /\ hasJson => q.res.payload.form = <<>>
       /\ (hasJson /\ ~JSON_parse(q.body).ok) =>
            q.res.payload.json = JNull /\ q.res.status = 200

C29_Witness ==
  \E i \in MirrorDone :
    /\ ContentTypeOf(reqs[i]) = BothTypes
    /\ ~JSON_parse(reqs[i].body).ok
    /\ parseForm(reqs[i].body) # <<>>
    /\ reqs[i].res.payload.form = <<>>
    /\ reqs[i].res.payload.json = JNull

Answered(q) == q.res.ends = 1

\* C27 as stated: from some moment on, every request has its response
\* ended, except the matched POST requests whose body stream has not
\* ended - so every GET request, every unmatched request and every
\* matched POST request whose stream ends is eventually answered.
C27_EventuallyAnswered ==
  <>[](\A i \in 1..Len(reqs) : Answered(reqs[i]) \/ Stalled(reqs[i]))

\* what does hold: the same as long as no request has a target that the
\* URL constructor rejects
C27_AnsweredUnlessThrown ==
  <>[](Crashed \/ \A i \in 1..Len(reqs) : Answered(reqs[i]) \/ Stalled(reqs[i]))

====
